---- MODULE Spec2Model ----
(***************************************************************************)
(* Model of the daily turn engine of The Great Divide Trail:               *)
(* resources.py (Resource, ResourceManager), player.py (Player),           *)
(* party.py (Party) and the turn handlers of game_loop.py (Game).          *)
(*                                                                         *)
(* Quantities of resources are Python floats in the source.  They are      *)
(* modelled in fixed point: an integer q stands for q / Scale units, and a *)
(* product with a fractional rate is truncated to that resolution.         *)
(***************************************************************************)
EXTENDS Integers, Sequences, FiniteSets, TLC

Min(a, b) == IF a <= b THEN a ELSE b
Max(a, b) == IF a >= b THEN a ELSE b

\* fixed-point resolution of a resource quantity (thousandths of a unit)
Scale == 1000

(***************************************************************************)
(* resources.py                                                            *)
(***************************************************************************)
ResourceType == {"food", "water", "ammunition", "medical", "clothing", "tools", "money"}

\* ResourceManager._initialize_resources: default capacities, in units
default_capacities ==
    [ food |-> 500, water |-> 100, ammunition |-> 200, medical |-> 50,
      clothing |-> 20, tools |-> 10, money |-> 10000 ]

\* Resource(resource_type, quantity=0, max_capacity=capacity, quality=100)
NewResource(capacity) ==
    [ quantity |-> 0, max_capacity |-> capacity * Scale, quality |-> 100 * Scale ]

initialize_resources == [ k \in ResourceType |-> NewResource(default_capacities[k]) ]

\* Resource.add without the clamp to the free space
Resource_add_unclamped(r, amount) ==
    IF amount <= 0
    THEN [ r |-> r, ret |-> 0 ]
    ELSE [ r |-> [ r EXCEPT !.quantity = r.quantity + amount ], ret |-> amount ]

\* Resource.add: returns the new Resource and the returned value
Resource_add(r, amount) ==
    IF amount <= 0
    THEN [ r |-> r, ret |-> 0 ]
    ELSE LET space_available == r.max_capacity - r.quantity
             actual_add == Min(amount, space_available)
         IN  [ r |-> [ r EXCEPT !.quantity = r.quantity + actual_add ], ret |-> actual_add ]

\* Resource.remove that reports the requested amount
Resource_remove_requested(r, amount) ==
    IF amount <= 0
    THEN [ r |-> r, ret |-> 0 ]
    ELSE LET actual_remove == Min(amount, r.quantity)
         IN  [ r |-> [ r EXCEPT !.quantity = r.quantity - actual_remove ], ret |-> amount ]

\* Resource.remove
Resource_remove(r, amount) ==
    IF amount <= 0
    THEN [ r |-> r, ret |-> 0 ]
    ELSE LET actual_remove == Min(amount, r.quantity)
         IN  [ r |-> [ r EXCEPT !.quantity = r.quantity - actual_remove ], ret |-> actual_remove ]

\* ResourceManager.add: the manager's resources after the call, and the value returned
ResourceManager_add(rs, resource_type, amount) ==
    IF resource_type \in DOMAIN rs
    THEN LET res == Resource_add(rs[resource_type], amount)
         IN  [ rs |-> [ rs EXCEPT ![resource_type] = res.r ], ret |-> res.ret ]
    ELSE [ rs |-> rs, ret |-> 0 ]

\* ResourceManager.remove
ResourceManager_remove(rs, resource_type, amount) ==
    IF resource_type \in DOMAIN rs
    THEN LET res == Resource_remove(rs[resource_type], amount)
         IN  [ rs |-> [ rs EXCEPT ![resource_type] = res.r ], ret |-> res.ret ]
    ELSE [ rs |-> rs, ret |-> 0 ]

\* ResourceManager.get_quantity
get_quantity(rs, resource_type) ==
    IF resource_type \in DOMAIN rs THEN rs[resource_type].quantity ELSE 0

\* ResourceManager.set_quantity
set_quantity(rs, resource_type, amount) ==
    IF resource_type \in DOMAIN rs
    THEN [ rs EXCEPT ![resource_type].quantity =
                Max(0, Min(amount, rs[resource_type].max_capacity)) ]
    ELSE rs

(***************************************************************************)
(* player.py                                                               *)
(***************************************************************************)
Role == {"Traveler", "Trail Leader", "Hunter", "Medic", "Scout", "Mechanic"}

Condition == {"Healthy", "Injured", "Hypothermia", "Dysentery", "Scurvy", "Frostbite",
              "Infection", "Exhausted", "Starving", "Dehydrated"}

ROLE_BONUSES ==
    [ r \in Role |->
        CASE r = "Traveler"     -> [ navigation |-> 0,  hunting |-> 0,  healing |-> 0,  scouting |-> 0,  repair |-> 0 ]
          [] r = "Trail Leader" -> [ navigation |-> 25, hunting |-> 0,  healing |-> 0,  scouting |-> 10, repair |-> 0 ]
          [] r = "Hunter"       -> [ navigation |-> 0,  hunting |-> 30, healing |-> 0,  scouting |-> 5,  repair |-> 0 ]
          [] r = "Medic"        -> [ navigation |-> 0,  hunting |-> 0,  healing |-> 35, scouting |-> 0,  repair |-> 0 ]
          [] r = "Scout"        -> [ navigation |-> 15, hunting |-> 10, healing |-> 0,  scouting |-> 40, repair |-> 0 ]
          [] r = "Mechanic"     -> [ navigation |-> 0,  hunting |-> 0,  healing |-> 0,  scouting |-> 0,  repair |-> 40 ] ]

CONDITION_EFFECTS ==
    [ c \in Condition |->
        CASE c = "Healthy"     -> [ health_drain |-> 0, morale_drain |-> 0, travel_speed |-> 0,   can_work |-> TRUE ]
          [] c = "Injured"     -> [ health_drain |-> 2, morale_drain |-> 3, travel_speed |-> -15, can_work |-> TRUE ]
          [] c = "Hypothermia" -> [ health_drain |-> 5, morale_drain |-> 5, travel_speed |-> -25, can_work |-> FALSE ]
          [] c = "Dysentery"   -> [ health_drain |-> 4, morale_drain |-> 4, travel_speed |-> -20, can_work |-> FALSE ]
          [] c = "Scurvy"      -> [ health_drain |-> 2, morale_drain |-> 3, travel_speed |-> -10, can_work |-> TRUE ]
          [] c = "Frostbite"   -> [ health_drain |-> 3, morale_drain |-> 4, travel_speed |-> -15, can_work |-> TRUE ]
          [] c = "Infection"   -> [ health_drain |-> 6, morale_drain |-> 5, travel_speed |-> -20, can_work |-> FALSE ]
          [] c = "Exhausted"   -> [ health_drain |-> 1, morale_drain |-> 5, travel_speed |-> -20, can_work |-> TRUE ]
          [] c = "Starving"    -> [ health_drain |-> 5, morale_drain |-> 8, travel_speed |-> -25, can_work |-> FALSE ]
          [] c = "Dehydrated"  -> [ health_drain |-> 6, morale_drain |-> 6, travel_speed |-> -30, can_work |-> FALSE ] ]

\* Player.__init__
Player(name, role, health, morale) ==
    [ name |-> name, role |-> role, health |-> health, max_health |-> 100,
      morale |-> morale, conditions |-> << >>, days_survived |-> 0, alive_flag |-> TRUE ]

\* Player.is_alive (property): the _is_alive flag and a positive health
is_alive(p) == p.alive_flag /\ p.health > 0

\* Player.is_healthy (property)
is_healthy(p) == Len(p.conditions) = 0

\* membership in a Python list
InList(x, list) == \E i \in 1..Len(list) : list[i] = x

\* Player.can_work (property)
can_work(p) ==
    /\ is_alive(p)
    /\ \A i \in 1..Len(p.conditions) : CONDITION_EFFECTS[p.conditions[i]].can_work

\* Player.get_skill_bonus
get_skill_bonus(p, skill) == ROLE_BONUSES[p.role][skill]

\* Player.get_effective_skill with base_value = 50:
\* int(50 * (1 + bonus/100) * (health/100) * (0.5 + morale/200))
get_effective_skill(p, skill) ==
    (50 * (100 + get_skill_bonus(p, skill)) * p.health * (100 + p.morale)) \div 2000000

\* Player.take_damage that lets the health carry the whole amount
Player_take_damage_unclamped(p, amount) ==
    IF ~is_alive(p)
    THEN [ p |-> p, actual_damage |-> 0, died |-> TRUE ]
    ELSE LET h == p.health - amount
         IN  IF h <= 0
             THEN [ p |-> [ p EXCEPT !.health = h, !.alive_flag = FALSE ],
                    actual_damage |-> amount, died |-> TRUE ]
             ELSE [ p |-> [ p EXCEPT !.health = h ], actual_damage |-> amount, died |-> FALSE ]

\* Player.take_damage: the player after the call, the damage taken, whether the player died
Player_take_damage(p, amount) ==
    IF ~is_alive(p)
    THEN [ p |-> p, actual_damage |-> 0, died |-> TRUE ]
    ELSE LET actual_damage == Min(amount, p.health)
             h == p.health - actual_damage
         IN  IF h <= 0
             THEN [ p |-> [ p EXCEPT !.health = 0, !.alive_flag = FALSE ],
                    actual_damage |-> actual_damage, died |-> TRUE ]
             ELSE [ p |-> [ p EXCEPT !.health = h ],
                    actual_damage |-> actual_damage, died |-> FALSE ]

\* Player.heal: the player after the call (int(amount * 1.35) with a medic)
Player_heal(p, amount, has_medic_bonus) ==
    IF ~is_alive(p)
    THEN p
    ELSE LET a == IF has_medic_bonus THEN (amount * 135) \div 100 ELSE amount
         IN  [ p EXCEPT !.health = Min(p.max_health, p.health + a) ]

\* Player.add_condition that appends without looking at the list
add_condition_unchecked(p, condition) ==
    [ p EXCEPT !.conditions = Append(p.conditions, condition) ]

\* Player.add_condition
add_condition(p, condition) ==
    IF ~InList(condition, p.conditions) /\ condition # "Healthy"
    THEN [ p EXCEPT !.conditions = Append(p.conditions, condition) ]
    ELSE p

\* list.remove: drops the first occurrence
RECURSIVE ListRemove(_, _)
ListRemove(list, x) ==
    IF list = << >> THEN << >>
    ELSE IF Head(list) = x THEN Tail(list)
    ELSE << Head(list) >> \o ListRemove(Tail(list), x)

\* Player.remove_condition
remove_condition(p, condition) ==
    IF InList(condition, p.conditions)
    THEN [ p EXCEPT !.conditions = ListRemove(p.conditions, condition) ]
    ELSE p

\* Player.change_morale without the clamp to 0..100
change_morale_unclamped(p, amount) == [ p EXCEPT !.morale = p.morale + amount ]

\* Player.change_morale
change_morale(p, amount) == [ p EXCEPT !.morale = Max(0, Min(100, p.morale + amount)) ]

Abs(n) == IF n < 0 THEN -n ELSE n

\* Player.boost_morale / Player.reduce_morale
boost_morale(p, amount) == change_morale(p, Abs(amount))
reduce_morale(p, amount) == change_morale(p, -Abs(amount))

\* sums of the drains of the conditions held (Player.daily_update, first loop)
RECURSIVE SumDrain(_, _)
SumDrain(conds, field) ==
    IF conds = << >> THEN 0
    ELSE CONDITION_EFFECTS[Head(conds)][field] + SumDrain(Tail(conds), field)

\* Player.daily_update, second loop: over a copy of the condition list, an
\* Injured condition may add Infection (rolls.worsen), and Exhausted / Injured
\* may clear (rolls.recover holds the conditions whose recovery roll succeeds)
RECURSIVE UpdateConditions(_, _, _)
UpdateConditions(p, copy, rolls) ==
    IF copy = << >> THEN p
    ELSE LET c  == Head(copy)
             p1 == IF c = "Injured" /\ rolls.worsen THEN add_condition(p, "Infection") ELSE p
             p2 == IF c \in {"Exhausted", "Injured"} /\ c \in rolls.recover
                   THEN remove_condition(p1, c) ELSE p1
         IN  UpdateConditions(p2, Tail(copy), rolls)

\* the random draws of one daily_update: randint(1, 3), random() < 0.10, random() < 0.05
DailyRolls ==
    [ recovery : 1..3, worsen : BOOLEAN, recover : SUBSET {"Exhausted", "Injured"} ]

\* Player.daily_update: the player after the update and whether it died
Player_daily_update(p, rolls) ==
    IF ~is_alive(p)
    THEN [ p |-> p, died |-> FALSE ]
    ELSE LET p0 == [ p EXCEPT !.days_survived = p.days_survived + 1 ]
             total_health_drain == SumDrain(p0.conditions, "health_drain")
             total_morale_drain == SumDrain(p0.conditions, "morale_drain")
             dmg == Player_take_damage(p0, total_health_drain)
             p1 == IF total_health_drain > 0 THEN dmg.p ELSE p0
             died == IF total_health_drain > 0 THEN dmg.died ELSE FALSE
             p2 == IF total_morale_drain > 0 THEN reduce_morale(p1, total_morale_drain) ELSE p1
             p3 == IF is_healthy(p2) /\ p2.morale < 50 THEN boost_morale(p2, rolls.recovery) ELSE p2
         IN  [ p |-> UpdateConditions(p3, p3.conditions, rolls), died |-> died ]

\* Player.get_travel_speed_modifier
Player_get_travel_speed_modifier(p) ==
    SumDrain(p.conditions, "travel_speed")
      + (IF p.health < 30 THEN -20 ELSE IF p.health < 50 THEN -10 ELSE 0)

(***************************************************************************)
(* resources.py: consumption and decay                                     *)
(***************************************************************************)
Rationing == {"filling", "normal", "meager", "starving"}
Terrain == {"desert", "plains", "mountains", "forest", "tundra", "river"}
WeatherName == {"clear", "cloudy", "rain", "storm", "hot", "cold", "snow", "blizzard"}

\* DAILY_CONSUMPTION: units per person per day
DAILY_CONSUMPTION == [ food |-> 2, water |-> 1 ]

\* DECAY_RATES, in thousandths per day
DECAY_RATES == [ food |-> 20, water |-> 10, clothing |-> 5 ]

\* WEATHER_DECAY_MULTIPLIERS, in tenths
WEATHER_DECAY_MULTIPLIERS ==
    [ clear |-> 10, cloudy |-> 10, rain |-> 15, storm |-> 20,
      snow |-> 5, blizzard |-> 5, hot |-> 25, cold |-> 5 ]

\* TERRAIN_CONSUMPTION_MULTIPLIERS, in tenths
TERRAIN_CONSUMPTION_MULTIPLIERS ==
    [ desert    |-> [ water |-> 20, food |-> 10 ],
      plains    |-> [ water |-> 10, food |-> 10 ],
      mountains |-> [ water |-> 10, food |-> 15 ],
      forest    |-> [ water |-> 8,  food |-> 10 ],
      tundra    |-> [ water |-> 5,  food |-> 15 ],
      river     |-> [ water |-> 5,  food |-> 10 ] ]

\* ration multipliers that do not tell meager from starving
ration_multipliers_flat == [ filling |-> 150, normal |-> 100, meager |-> 50, starving |-> 50 ]

\* ration_multipliers of calculate_daily_consumption, in hundredths
ration_multipliers == [ filling |-> 150, normal |-> 100, meager |-> 50, starving |-> 25 ]

\* ResourceManager.calculate_daily_consumption: base_rate * party_size *
\* ration_mult * terrain_mult for food and water, in units / Scale
calculate_daily_consumption(party_size, terrain, rationing) ==
    LET ration_mult == IF rationing \in DOMAIN ration_multipliers
                       THEN ration_multipliers[rationing] ELSE 100
    IN  [ k \in {"food", "water"} |->
            LET terrain_mult == IF terrain \in DOMAIN TERRAIN_CONSUMPTION_MULTIPLIERS
                                THEN TERRAIN_CONSUMPTION_MULTIPLIERS[terrain][k] ELSE 10
            IN  (DAILY_CONSUMPTION[k] * party_size * ration_mult * terrain_mult * Scale) \div 1000 ]

\* ResourceManager.consume_daily: the resources after the removals, the amounts
\* consumed and the shortages (needed - actual, for the kinds that fell short)
consume_daily(rs, party_size, terrain, rationing) ==
    LET consumption == calculate_daily_consumption(party_size, terrain, rationing)
        afterFood  == ResourceManager_remove(rs, "food", consumption["food"])
        afterWater == ResourceManager_remove(afterFood.rs, "water", consumption["water"])
        actual == [ food |-> afterFood.ret, water |-> afterWater.ret ]
        short == { k \in {"food", "water"} : actual[k] < consumption[k] }
    IN  [ rs |-> afterWater.rs,
          consumed |-> actual,
          shortages |-> [ k \in short |-> consumption[k] - actual[k] ] ]

\* Resource.apply_decay: quantity loses quantity * rate, quality loses rate * 10
Resource_apply_decay(r, base_rate, rate_multiplier) ==
    IF base_rate <= 0 THEN r
    ELSE LET decay_amount == (r.quantity * base_rate * rate_multiplier) \div 10000
         IN  [ r EXCEPT !.quantity = Max(0, r.quantity - decay_amount),
                        !.quality  = Max(0, r.quality - (base_rate * rate_multiplier * Scale) \div 1000) ]

\* ResourceManager.apply_daily_decay
apply_daily_decay(rs, weather) ==
    LET weather_mult == IF weather \in DOMAIN WEATHER_DECAY_MULTIPLIERS
                        THEN WEATHER_DECAY_MULTIPLIERS[weather] ELSE 10
    IN  [ k \in DOMAIN rs |->
            IF k \in DOMAIN DECAY_RATES /\ rs[k].quantity > 0
            THEN Resource_apply_decay(rs[k], DECAY_RATES[k], weather_mult)
            ELSE rs[k] ]

\* ResourceManager.days_of_supplies for food (terrain defaults to plains)
days_of_food(rs, party_size, rationing) ==
    LET daily == calculate_daily_consumption(party_size, "plains", rationing)["food"]
    IN  IF daily > 0 THEN get_quantity(rs, "food") \div daily ELSE 999

(***************************************************************************)
(* party.py                                                                *)
(***************************************************************************)
MAX_PARTY_SIZE == 5

MORALE_EVENTS ==
    [ death |-> -25, successful_hunt |-> 10, failed_hunt |-> -5, rest_day |-> 15,
      good_weather |-> 5, bad_weather |-> -5, found_supplies |-> 10, low_food |-> -10,
      no_food |-> -20, reached_landmark |-> 15, injury |-> -10, healed |-> 5 ]

\* Party.add_member: the list afterwards and the value returned
add_member(ms, player) ==
    IF Len(ms) >= MAX_PARTY_SIZE
    THEN [ ms |-> ms, ret |-> FALSE ]
    ELSE [ ms |-> Append(ms, player), ret |-> TRUE ]

\* Party.remove_member: list.remove takes the player out of the list
remove_member(ms, player) ==
    IF InList(player, ms)
    THEN [ ms |-> ListRemove(ms, player), ret |-> TRUE ]
    ELSE [ ms |-> ms, ret |-> FALSE ]

\* member.take_damage(amount) that takes a member that died out of the list
member_take_damage_drops_dead(ms, i, amount) ==
    LET hit == Player_take_damage(ms[i], amount)
    IN  IF hit.died THEN ListRemove(ms, ms[i]) ELSE [ ms EXCEPT ![i] = hit.p ]

\* member.take_damage(amount) on the i-th member of the list: the member is
\* changed in place
member_take_damage(ms, i, amount) ==
    [ ms EXCEPT ![i] = Player_take_damage(ms[i], amount).p ]

\* Party.alive_members, as the indices into the member list
alive_members(ms) == { i \in 1..Len(ms) : is_alive(ms[i]) }

\* Party.alive_count
alive_count(ms) == Cardinality(alive_members(ms))

\* Party.has_role
has_role(ms, role) == \E i \in alive_members(ms) : ms[i].role = role

\* Party.get_party_skill_bonus: best bonus among the living members
get_party_skill_bonus(ms, skill) ==
    LET bonuses == { get_skill_bonus(ms[i], skill) : i \in alive_members(ms) } \cup {0}
    IN  CHOOSE b \in bonuses : \A c \in bonuses : c <= b

\* Party.get_best_for_skill: index of the first working member with the
\* highest effective skill, 0 when nobody can work
get_best_for_skill(ms, skill) ==
    LET working == { i \in 1..Len(ms) : is_alive(ms[i]) /\ can_work(ms[i]) }
    IN  IF working = {} THEN 0
        ELSE CHOOSE i \in working :
                \A j \in working :
                    \/ get_effective_skill(ms[j], skill) < get_effective_skill(ms[i], skill)
                    \/ (get_effective_skill(ms[j], skill) = get_effective_skill(ms[i], skill) /\ i <= j)

\* Party.change_party_morale: every living member's morale changes by amount
change_party_morale(ms, amount) ==
    [ i \in 1..Len(ms) |-> IF is_alive(ms[i]) THEN change_morale(ms[i], amount) ELSE ms[i] ]

\* Party.apply_morale_event
apply_morale_event(ms, event_type) ==
    LET amount == IF event_type \in DOMAIN MORALE_EVENTS THEN MORALE_EVENTS[event_type] ELSE 0
    IN  IF amount # 0 THEN change_party_morale(ms, amount) ELSE ms

\* Party.heal_party passing over alive_members and Player.heal's guard: the dead
\* are healed like the living and come back
heal_party_revives(ms, amount) ==
    [ i \in 1..Len(ms) |->
        [ ms[i] EXCEPT !.health = Min(ms[i].max_health, ms[i].health + amount),
                       !.alive_flag = TRUE ] ]

\* Party.heal_party
heal_party(ms, amount) ==
    LET has_medic == has_role(ms, "Medic")
    IN  [ i \in 1..Len(ms) |->
            IF is_alive(ms[i]) THEN Player_heal(ms[i], amount, has_medic) ELSE ms[i] ]

\* int(): truncation toward zero of n / d, d > 0
TruncDiv(n, d) == IF n >= 0 THEN n \div d ELSE -((-n) \div d)

\* sum of the members' travel speed modifiers over the indices in I
RECURSIVE SumModifiers(_, _)
SumModifiers(ms, I) ==
    IF I = {} THEN 0
    ELSE LET i == CHOOSE j \in I : TRUE
         IN  Player_get_travel_speed_modifier(ms[i]) + SumModifiers(ms, I \ {i})

\* Party.get_travel_speed_modifier that averages the living members' modifiers
Party_get_travel_speed_modifier_average(ms) ==
    IF alive_members(ms) = {} THEN -100
    ELSE TruncDiv(SumModifiers(ms, alive_members(ms)), Cardinality(alive_members(ms)))

\* Party.get_travel_speed_modifier
Party_get_travel_speed_modifier(ms) ==
    IF alive_members(ms) = {} THEN -100
    ELSE LET mods == { Player_get_travel_speed_modifier(ms[i]) : i \in alive_members(ms) } \cup {0}
             worst == CHOOSE m \in mods : \A n \in mods : m <= n
             scout_bonus == get_party_skill_bonus(ms, "navigation")
         IN  IF scout_bonus > 0 /\ worst < 0
             THEN TruncDiv(worst * (200 - scout_bonus), 200)
             ELSE worst

\* Party._record_death: the death log with the entry appended
record_death(log, member, cause, day) ==
    Append(log, [ name |-> member.name, role |-> member.role, day |-> day,
                  cause |-> cause, days_survived |-> member.days_survived ])

(***************************************************************************)
(* travel.py and game_loop.py: tables                                      *)
(***************************************************************************)
GameState == {"MAIN_MENU", "PLAYING", "EVENT", "GAME_OVER", "VICTORY"}

TravelPace == {"slow", "steady", "normal", "fast", "grueling"}

\* PACE_MODIFIERS: speed in hundredths, injury_risk in hundredths
PACE_MODIFIERS ==
    [ slow     |-> [ speed |-> 70,  health_effect |-> 5,  morale_effect |-> 3,  injury_risk |-> 50 ],
      steady   |-> [ speed |-> 85,  health_effect |-> 2,  morale_effect |-> 1,  injury_risk |-> 75 ],
      normal   |-> [ speed |-> 100, health_effect |-> 0,  morale_effect |-> 0,  injury_risk |-> 100 ],
      fast     |-> [ speed |-> 125, health_effect |-> -3, morale_effect |-> -2, injury_risk |-> 130 ],
      grueling |-> [ speed |-> 150, health_effect |-> -8, morale_effect |-> -5, injury_risk |-> 200 ] ]

\* WEATHER_EFFECTS: speed_modifier
WEATHER_SPEED ==
    [ clear |-> 0, cloudy |-> 0, rain |-> -15, storm |-> -30,
      hot |-> -10, cold |-> -10, snow |-> -25, blizzard |-> -50 ]

\* TravelManager._create_default_data: the trail and the terrains' base miles per day
locations ==
    << [ id |-> "start", mile_marker |-> 0,    terrain |-> "plains", is_destination |-> FALSE ],
       [ id |-> "end",   mile_marker |-> 2800, terrain |-> "forest", is_destination |-> TRUE ] >>

total_distance == 2800

base_miles_per_day == [ plains |-> 20, mountains |-> 10, forest |-> 12, desert |-> 18, tundra |-> 14 ]

\* TravelManager.calculate_travel_distance (no active route, no location bonus,
\* forced_pace "normal"), in exact arithmetic
calculate_travel_distance(terrain, party_speed_modifier, weather_modifier) ==
    LET base_miles == base_miles_per_day[terrain]
        total_modifier == party_speed_modifier + weather_modifier
        miles == TruncDiv(base_miles * (100 + total_modifier), 100)
    IN  Max(1, Min(miles, base_miles * 2))

\* TravelManager.travel that leaves current_location_index where it was
location_after_unmoved(index, start_miles, target_miles) == index

\* TravelManager.travel: index of the last location whose mile marker lies in
\* (start_miles, target_miles], the current index when there is none
location_after(index, start_miles, target_miles) ==
    LET passed == { i \in 1..Len(locations) :
                      /\ locations[i].mile_marker > start_miles
                      /\ locations[i].mile_marker <= target_miles }
    IN  IF passed = {} THEN index
        ELSE CHOOSE i \in passed : \A j \in passed : j <= i

\* TravelManager.__init__: self.max_weather_history
max_weather_history == 5

\* TravelManager.generate_weather that never drops an entry of the history
generate_weather_keeps_all(history, drawn) ==
    [ current_weather |-> drawn, recent_weather |-> Append(history, drawn) ]

\* TravelManager.generate_weather, the weather drawn given: current_weather is
\* set, the draw is appended to recent_weather, and the first entry is popped
\* when the list has grown past max_weather_history
generate_weather(history, drawn) ==
    LET appended == Append(history, drawn)
    IN  [ current_weather |-> drawn,
          recent_weather |-> IF Len(appended) > max_weather_history
                             THEN Tail(appended) ELSE appended ]

\* generate_weather called once for each draw of the sequence
RECURSIVE generate_weathers(_, _, _)
generate_weathers(history, current, draws) ==
    IF draws = << >>
    THEN [ current_weather |-> current, recent_weather |-> history ]
    ELSE LET g == generate_weather(history, Head(draws))
         IN  generate_weathers(g.recent_weather, g.current_weather, Tail(draws))

\* TravelManager.scout_ahead, the weather forecast: generate_weather, then
\* current_weather is put back and the last entry of the history is popped
scout_ahead_weather(history, current, forecast, drawn) ==
    IF ~forecast
    THEN [ current_weather |-> current, recent_weather |-> history, weather_forecast |-> "none" ]
    ELSE LET g == generate_weather(history, drawn)
         IN  [ current_weather |-> current,
               recent_weather |-> IF g.recent_weather # << >>
                                  THEN SubSeq(g.recent_weather, 1, Len(g.recent_weather) - 1)
                                  ELSE g.recent_weather,
               weather_forecast |-> drawn ]

(***************************************************************************)
(* State                                                                   *)
(***************************************************************************)
VARIABLES
    resources,               \* Party.resources.resources: kind -> Resource
    ret,                     \* what the last ResourceManager.add / remove call returned
    state,                   \* Game.state
    members,                 \* Party.members: list of Player
    death_log,               \* Party.death_log
    days_traveled,           \* Party.days_traveled
    current_rationing,       \* Party.current_rationing
    current_pace,            \* Game.current_pace
    current_weather,         \* TravelManager.current_weather
    miles_traveled,          \* TravelManager.miles_traveled
    current_location_index,  \* TravelManager.current_location_index (1-based)
    current_event,           \* Game.current_event
    pc,                      \* position inside Game._travel / Party.process_day
    idx,                     \* position of the loop over Party.members in process_day
    results,                 \* the results dict process_day is filling
    turns,                   \* number of passes of Game.run taken so far
    recent_weather,          \* TravelManager.recent_weather
    recent_events,           \* EventManager.recent_events
    hunting_history,         \* HuntingManager.hunting_history
    crossing_history,        \* RiverCrossingManager.crossing_history
    date                     \* TravelManager.date, in days since the start

ledgerVars == << resources, ret >>

histVars == << recent_weather, recent_events, hunting_history, crossing_history >>

gameVars == << state, members, death_log, days_traveled, current_rationing, current_pace,
               current_weather, miles_traveled, current_location_index, current_event,
               pc, idx, results, turns, histVars, date >>

vars == << resources, ret, state, members, death_log, days_traveled, current_rationing,
           current_pace, current_weather, miles_traveled, current_location_index,
           current_event, pc, idx, results, turns,
           recent_weather, recent_events, hunting_history, crossing_history, date >>

NoReturn == [ op |-> "none", kind |-> "none", amount |-> 0, value |-> 0 ]

\* the results dict at the top of process_day (day is filled in there)
NoResults ==
    [ day |-> 0, consumed |-> FALSE, shortages |-> {}, decay |-> {},
      deaths |-> << >>, events |-> << >>, warnings |-> << >> ]

NoEvent ==
    [ id |-> "None", weight |-> 0,
      effects |-> [ health_damage |-> 0, health_healed |-> 0, morale |-> 0 ] ]

\* party.py create_default_party
default_members ==
    << Player("John Walker", "Trail Leader", 100, 75),
       Player("Mary Walker", "Medic", 100, 75),
       Player("Thomas Grey", "Hunter", 100, 75),
       Player("Sarah Grey", "Scout", 100, 75) >>

(***************************************************************************)
(* The resource ledger on its own: ResourceManager.add / remove called     *)
(* with arbitrary amounts                                                  *)
(***************************************************************************)
\* the resource kinds and the amounts (in units / Scale) the ledger calls are tried with
LedgerKinds == {"clothing", "tools", "nosuch"}
LedgerAmounts == { -5 * Scale, 0, (5 * Scale) \div 2, 4 * Scale, 30 * Scale }

LedgerInit ==
    /\ resources = initialize_resources
    /\ ret = NoReturn
    /\ state = "PLAYING"
    /\ members = default_members
    /\ death_log = << >>
    /\ days_traveled = 0
    /\ current_rationing = "normal"
    /\ current_pace = "normal"
    /\ current_weather = "clear"
    /\ miles_traveled = 0
    /\ current_location_index = 1
    /\ current_event = NoEvent
    /\ pc = "idle"
    /\ idx = 0
    /\ results = NoResults
    /\ turns = 0
    /\ recent_weather = << >>
    /\ recent_events = << >>
    /\ hunting_history = << >>
    /\ crossing_history = << >>
    /\ date = 0

\* a call ResourceManager.add(kind, amount)
LedgerAdd ==
    /\ \E k \in LedgerKinds, a \in LedgerAmounts :
        LET res == ResourceManager_add(resources, k, a)
        IN  /\ resources' = res.rs
            /\ ret' = [ op |-> "add", kind |-> k, amount |-> a, value |-> res.ret ]
    /\ UNCHANGED gameVars
    /\ UNCHANGED date

\* a call ResourceManager.remove(kind, amount)
LedgerRemove ==
    /\ \E k \in LedgerKinds, a \in LedgerAmounts :
        LET res == ResourceManager_remove(resources, k, a)
        IN  /\ resources' = res.rs
            /\ ret' = [ op |-> "remove", kind |-> k, amount |-> a, value |-> res.ret ]
    /\ UNCHANGED gameVars
    /\ UNCHANGED date

LedgerNext == LedgerAdd \/ LedgerRemove

SpecLedger == LedgerInit /\ [][LedgerNext]_vars

(***************************************************************************)
(* The party on its own: members added, removed, hurt and healed           *)
(***************************************************************************)
\* the players the party operations are tried with, and the amounts
PartyNames == {"Ada", "Ben"}
PartyDamage == {60, 100}
PartyHealing == {60}

\* the party create_default_party makes
PartyInit ==
    /\ resources = initialize_resources
    /\ ret = NoReturn
    /\ state = "PLAYING"
    /\ members = default_members
    /\ death_log = << >>
    /\ days_traveled = 0
    /\ current_rationing = "normal"
    /\ current_pace = "normal"
    /\ current_weather = "clear"
    /\ miles_traveled = 0
    /\ current_location_index = 1
    /\ current_event = NoEvent
    /\ pc = "idle"
    /\ idx = 0
    /\ results = NoResults
    /\ turns = 0
    /\ recent_weather = << >>
    /\ recent_events = << >>
    /\ hunting_history = << >>
    /\ crossing_history = << >>
    /\ date = 0

partyRest == << resources, state, death_log, days_traveled, current_rationing, current_pace,
                current_weather, miles_traveled, current_location_index, current_event,
                pc, idx, results, turns, histVars, date >>

\* a call Party.add_member(Player(name)) with a player not yet in the party
PartyAddMember ==
    /\ \E n \in PartyNames :
         /\ \A i \in 1..Len(members) : members[i].name # n
         /\ LET res == add_member(members, Player(n, "Traveler", 100, 75))
            IN  /\ members' = res.ms
                /\ ret' = [ op |-> "add_member", kind |-> n, amount |-> 0,
                            value |-> IF res.ret THEN 1 ELSE 0 ]
    /\ UNCHANGED partyRest
    /\ UNCHANGED date

\* a call Party.remove_member(player): a member of the party, or a player
\* that is not in it
PartyRemoveMember ==
    /\ \E player \in { members[i] : i \in 1..Len(members) }
                        \cup { Player(n, "Traveler", 100, 75) :
                                 n \in { m \in PartyNames :
                                          \A i \in 1..Len(members) : members[i].name # m } } :
         LET res == remove_member(members, player)
         IN  /\ members' = res.ms
             /\ ret' = [ op |-> "remove_member", kind |-> player.name, amount |-> 0,
                         value |-> IF res.ret THEN 1 ELSE 0 ]
    /\ UNCHANGED partyRest
    /\ UNCHANGED date

\* a member takes damage
PartyTakeDamage ==
    /\ \E i \in 1..Len(members), amount \in PartyDamage :
         /\ members' = member_take_damage(members, i, amount)
         /\ ret' = [ op |-> "take_damage", kind |-> members[i].name, amount |-> amount,
                     value |-> Player_take_damage(members[i], amount).actual_damage ]
    /\ UNCHANGED partyRest
    /\ UNCHANGED date

\* a call Party.heal_party(amount)
PartyHeal ==
    /\ \E amount \in PartyHealing :
         /\ members' = heal_party(members, amount)
         /\ ret' = [ op |-> "heal_party", kind |-> "none", amount |-> amount, value |-> 0 ]
    /\ UNCHANGED partyRest
    /\ UNCHANGED date

\* a call Party.get_travel_speed_modifier()
PartyGetTravelSpeedModifier ==
    /\ ret' = [ op |-> "get_travel_speed_modifier", kind |-> "none", amount |-> 0,
                value |-> Party_get_travel_speed_modifier(members) ]
    /\ UNCHANGED members
    /\ UNCHANGED partyRest
    /\ UNCHANGED date

PartyNext ==
    \/ PartyAddMember
    \/ PartyRemoveMember
    \/ PartyTakeDamage
    \/ PartyHeal
    \/ PartyGetTravelSpeedModifier

SpecParty == PartyInit /\ [][PartyNext]_vars

(***************************************************************************)
(* The game: Game.run dispatching on Game.state, one action per handler.   *)
(* Party.process_day is entered from Game._travel and runs as the sequence *)
(* of its numbered steps, pc naming the step about to run; nothing else    *)
(* runs until it has returned.                                             *)
(***************************************************************************)
\* number of passes of the main loop explored
MaxTurns == 2

\* what the random draws and the menus are tried with
InitAmmunition == 4 * Scale
\* the parties the runs start from: members' health, food and water in units,
\* miles already traveled, pace
InitScenarios ==
    { [ health |-> << 100, 100, 100 >>, food |-> 20, water |-> 20, miles |-> 0,    pace |-> "normal",   weather |-> "clear" ],
      [ health |-> << 5, 5, 100 >>,     food |-> 0,  water |-> 20, miles |-> 0,    pace |-> "normal",   weather |-> "clear" ],
      [ health |-> << 5, 5, 100 >>,     food |-> 20, water |-> 0,  miles |-> 0,    pace |-> "normal",   weather |-> "clear" ],
      [ health |-> << 30, 30, 100 >>,   food |-> 0,  water |-> 0,  miles |-> 0,    pace |-> "normal",   weather |-> "clear" ],
      [ health |-> << 5, 5, 30 >>,      food |-> 20, water |-> 20, miles |-> 0,    pace |-> "grueling", weather |-> "clear" ],
      [ health |-> << 5, 5, 5 >>,       food |-> 20, water |-> 20, miles |-> 2790, pace |-> "grueling", weather |-> "clear" ],
      [ health |-> << 100, 100, 100 >>, food |-> 20, water |-> 20, miles |-> 2790, pace |-> "normal",   weather |-> "clear" ],
      [ health |-> << 100, 100, 100 >>, food |-> 20, water |-> 20, miles |-> 0,    pace |-> "normal",   weather |-> "blizzard" ] }
WeatherChoices == {"clear", "storm"}
PaceChoices == {"slow", "grueling"}
RestDays == {1, 2}
RestHeal == {10}
RestInitFood == {3, 20}
RestInitWater == {0, 20}
SeededTerrains == {"plains", "mountains"}
MaxDays == 101
SuppliesFood == {800, 30}
SuppliesTerrains == {"plains", "mountains"}
HuntAmmoCost == {2, 8}
HuntAmmoAvailable == {0, 1, 2, 5}
HuntInitAmmunition == { 0, (3 * Scale) \div 2, (5 * Scale) \div 2, 10 * Scale }
HuntInjuryDamage == {40}
HuntFoodYield == {50}
EquipmentTravelSpeed == {0}

\* EventManager.events: the events loaded from the data file, each with its
\* id, its weight and the effects of its outcome
events ==
    << [ id |-> "wolf_attack", weight |-> 2,
         effects |-> [ health_damage |-> 30, health_healed |-> 0, morale |-> -10 ] ],
       [ id |-> "hot_spring", weight |-> 1,
         effects |-> [ health_damage |-> 0, health_healed |-> 10, morale |-> 5 ] ],
       [ id |-> "rockslide", weight |-> 1,
         effects |-> [ health_damage |-> 30, health_healed |-> 0, morale |-> -10 ] ],
       [ id |-> "trapper_camp", weight |-> 1,
         effects |-> [ health_damage |-> 0, health_healed |-> 10, morale |-> 5 ] ],
       [ id |-> "uneventful", weight |-> 1,
         effects |-> [ health_damage |-> 0, health_healed |-> 0, morale |-> 0 ] ] >>

EventEffects == { events[i].effects : i \in DOMAIN events }

\* EventManager.__init__: self.cooldown_count
cooldown_count == 3

\* EventManager.get_eligible_events that does not skip the recent events
get_eligible_events_with_recent(evs, recent) == evs

\* EventManager.get_eligible_events: the events whose id is not in
\* recent_events (every event matches the terrain, season and region)
get_eligible_events(evs, recent) ==
    SelectSeq(evs, LAMBDA e : ~InList(e.id, recent))

\* sum(e.weight for e in eligible)
RECURSIVE total_weight(_)
total_weight(eligible) ==
    IF eligible = << >> THEN 0 ELSE Head(eligible).weight + total_weight(Tail(eligible))

\* the loop of select_random_event: the first event whose cumulative weight
\* reaches the roll, the last one if none does
RECURSIVE weighted_choice(_, _, _)
weighted_choice(eligible, roll, cumulative) ==
    IF Len(eligible) = 1 THEN Head(eligible)
    ELSE IF roll <= cumulative + Head(eligible).weight THEN Head(eligible)
    ELSE weighted_choice(Tail(eligible), roll, cumulative + Head(eligible).weight)

\* EventManager.select_random_event: the events a roll can select, none
\* (None returned) when no event is eligible
select_random_event(evs, recent) ==
    LET eligible == get_eligible_events(evs, recent)
    IN  IF eligible = << >> THEN {}
        ELSE { weighted_choice(eligible, roll, 0) : roll \in 1..total_weight(eligible) }

\* EventManager._update_cooldown
update_cooldown(recent, event_id) ==
    LET appended == Append(recent, event_id)
    IN  IF Len(appended) > cooldown_count THEN Tail(appended) ELSE appended

\* a party on the trail: the first members of the default party, at the
\* scenario's health
scenario_members(h) == [ i \in 1..Len(h) |-> [ default_members[i] EXCEPT !.health = h[i] ] ]

GameInit ==
    /\ \E sc \in InitScenarios :
         /\ resources = set_quantity(set_quantity(set_quantity(initialize_resources,
                            "food", sc.food * Scale), "water", sc.water * Scale),
                            "ammunition", InitAmmunition)
         /\ members = scenario_members(sc.health)
         /\ miles_traveled = sc.miles
         /\ current_pace = sc.pace
         /\ current_weather = sc.weather
         /\ recent_weather = << sc.weather >>
    /\ ret = NoReturn
    /\ state = "PLAYING"
    /\ death_log = << >>
    /\ days_traveled = 0
    /\ current_rationing = "normal"
    /\ current_location_index = 1
    /\ current_event = NoEvent
    /\ pc = "idle"
    /\ idx = 0
    /\ results = NoResults
    /\ turns = 0
    /\ recent_events = << >>
    /\ hunting_history = << >>
    /\ crossing_history = << >>
    /\ date = 0

\* TravelManager.current_location / at_destination
current_location == locations[current_location_index]
at_destination == current_location.is_destination

\* Party.is_party_alive
is_party_alive(ms) == alive_count(ms) > 0

\* Game._game_turn gets past its two checks and shows the action menu
TurnOpen ==
    /\ state = "PLAYING"
    /\ pc = "idle"
    /\ turns < MaxTurns
    /\ ~at_destination
    /\ is_party_alive(members)

\* Game._game_turn: "Check for victory"
GameTurnVictory ==
    /\ state = "PLAYING" /\ pc = "idle"
    /\ at_destination
    /\ state' = "VICTORY"
    /\ UNCHANGED << resources, ret, members, death_log, days_traveled, current_rationing,
                    current_pace, current_weather, miles_traveled, current_location_index,
                    current_event, pc, idx, results, turns >>
    /\ UNCHANGED histVars
    /\ UNCHANGED date

\* Game._game_turn: "Check for game over"
GameTurnGameOver ==
    /\ state = "PLAYING" /\ pc = "idle"
    /\ ~at_destination
    /\ ~is_party_alive(members)
    /\ state' = "GAME_OVER"
    /\ UNCHANGED << resources, ret, members, death_log, days_traveled, current_rationing,
                    current_pace, current_weather, miles_traveled, current_location_index,
                    current_event, pc, idx, results, turns >>
    /\ UNCHANGED histVars
    /\ UNCHANGED date

\* Game._game_over and Game._victory: show the screen, back to the main menu
EndScreen ==
    /\ state \in {"GAME_OVER", "VICTORY"} /\ pc = "idle"
    /\ state' = "MAIN_MENU"
    /\ UNCHANGED << resources, ret, members, death_log, days_traveled, current_rationing,
                    current_pace, current_weather, miles_traveled, current_location_index,
                    current_event, pc, idx, results, turns >>
    /\ UNCHANGED histVars
    /\ UNCHANGED date

\* Game._change_pace
ChangePace ==
    /\ TurnOpen
    /\ \E pace \in PaceChoices : current_pace' = pace
    /\ turns' = turns + 1
    /\ UNCHANGED << resources, ret, state, members, death_log, days_traveled, current_rationing,
                    current_weather, miles_traveled, current_location_index,
                    current_event, pc, idx, results >>
    /\ UNCHANGED histVars
    /\ UNCHANGED date

\* Game._travel, "Health effects from pace": every living member heals or is damaged
pace_health_effect(ms, effect) ==
    [ i \in 1..Len(ms) |->
        IF ~is_alive(ms[i]) \/ effect = 0 THEN ms[i]
        ELSE IF effect > 0 THEN Player_heal(ms[i], Abs(effect), FALSE)
        ELSE Player_take_damage(ms[i], Abs(effect)).p ]

\* Game._travel that travels on in a blizzard without asking
blizzard_declined_never(weather, confirmed) == FALSE

\* Game._travel, the blizzard check: TRUE when the confirmation is asked and
\* declined, and _travel returns
blizzard_declined(weather, confirmed) == weather = "blizzard" /\ ~confirmed

\* Game._travel, the grueling pace check: TRUE when the confirmation is asked
\* and declined, and _travel returns
grueling_declined(pace, confirmed) == pace = "grueling" /\ ~confirmed

\* the confirm() prompts of Game._travel and the answers typed: the blizzard
\* prompt comes first, the grueling prompt only once the first did not return
travel_answers(weather, pace, confirm_blizzard, confirm_grueling) ==
    CASE weather = "blizzard" /\ ~confirm_blizzard -> "blizzard: n"
      [] weather = "blizzard" /\ confirm_blizzard /\ pace # "grueling" -> "blizzard: y"
      [] weather = "blizzard" /\ confirm_blizzard /\ pace = "grueling" /\ ~confirm_grueling ->
              "blizzard: y, grueling: n"
      [] weather = "blizzard" /\ confirm_blizzard /\ pace = "grueling" /\ confirm_grueling ->
              "blizzard: y, grueling: y"
      [] weather # "blizzard" /\ pace = "grueling" /\ ~confirm_grueling -> "grueling: n"
      [] weather # "blizzard" /\ pace = "grueling" /\ confirm_grueling -> "grueling: y"
      [] OTHER -> "none asked"

\* Game._travel up to its call of Party.process_day: the blizzard and grueling
\* confirmations, TravelManager.travel, and the effects of the pace
TravelBegin ==
    /\ TurnOpen
    /\ turns' = turns + 1
    /\ \E confirm_blizzard \in BOOLEAN, confirm_grueling \in BOOLEAN,
          wagon_speed \in EquipmentTravelSpeed, exhausted \in 0..Len(members) :
         LET pace_info == PACE_MODIFIERS[current_pace]
             party_mod == Party_get_travel_speed_modifier(members)
             pace_mod == pace_info.speed - 100
             miles == calculate_travel_distance(current_location.terrain,
                          party_mod + pace_mod + wagon_speed, WEATHER_SPEED[current_weather])
             target_miles == miles_traveled + miles
             ms1 == pace_health_effect(members, pace_info.health_effect)
             ms2 == IF pace_info.morale_effect # 0
                    THEN change_party_morale(ms1, pace_info.morale_effect) ELSE ms1
             answers == travel_answers(current_weather, current_pace,
                                       confirm_blizzard, confirm_grueling)
             ms3 == IF exhausted # 0 THEN [ ms2 EXCEPT ![exhausted] = add_condition(@, "Exhausted") ]
                    ELSE ms2
         IN  IF blizzard_declined(current_weather, confirm_blizzard)
             THEN /\ exhausted = 0
                  /\ ret' = [ op |-> "travel", kind |-> answers,
                              amount |-> 0, value |-> turns' ]
                  /\ UNCHANGED << members, miles_traveled, current_location_index, pc, date >>
             ELSE IF grueling_declined(current_pace, confirm_grueling)
             THEN /\ exhausted = 0
                  /\ ret' = [ op |-> "travel", kind |-> answers,
                              amount |-> 0, value |-> turns' ]
                  /\ UNCHANGED << members, miles_traveled, current_location_index, pc, date >>
             ELSE /\ exhausted # 0 => pace_info.injury_risk > 100 /\ exhausted \in alive_members(ms2)
                  /\ current_location_index' =
                         location_after(current_location_index, miles_traveled, target_miles)
                  /\ miles_traveled' = Min(target_miles, total_distance)
                  /\ date' = date + 1
                  /\ members' = ms3
                  /\ pc' = "pd_inc"
                  /\ ret' = [ op |-> "travel", kind |-> answers,
                              amount |-> miles, value |-> turns' ]
    /\ UNCHANGED << resources, state, death_log, days_traveled, current_rationing,
                    current_pace, current_weather, current_event, idx, results >>
    /\ UNCHANGED histVars

(***************************************************************************)
(* Party.process_day(terrain, weather)                                     *)
(***************************************************************************)
\* the statement order of process_day: the step that follows each step
pd_after_decay_first(step) ==
    CASE step = "pd_inc"     -> "pd_decay"
      [] step = "pd_decay"   -> "pd_consume"
      [] step = "pd_consume" -> "pd_penalty"
      [] step = "pd_penalty" -> "pd_member"
      [] step = "pd_member"  -> "pd_weather"
      [] step = "pd_weather" -> "pd_lowfood"
      [] step = "pd_lowfood" -> "travel_end"

pd_after(step) ==
    CASE step = "pd_inc"     -> "pd_consume"
      [] step = "pd_consume" -> "pd_penalty"
      [] step = "pd_penalty" -> "pd_decay"
      [] step = "pd_decay"   -> "pd_member"
      [] step = "pd_member"  -> "pd_weather"
      [] step = "pd_weather" -> "pd_lowfood"
      [] step = "pd_lowfood" -> "travel_end"

\* results = {...}; self.days_traveled += 1
ProcessDayIncrement ==
    /\ pc = "pd_inc"
    /\ results' = [ NoResults EXCEPT !.day = days_traveled + 1 ]
    /\ days_traveled' = days_traveled + 1
    /\ pc' = pd_after("pd_inc")
    /\ UNCHANGED << resources, ret, state, members, death_log, current_rationing, current_pace,
                    current_weather, miles_traveled, current_location_index, current_event,
                    idx, turns >>
    /\ UNCHANGED histVars
    /\ UNCHANGED date

\* "1. Consume daily resources": ResourceManager.consume_daily when anyone is alive
ProcessDayConsume ==
    /\ pc = "pd_consume"
    /\ IF alive_count(members) > 0
       THEN LET consumption == consume_daily(resources, alive_count(members),
                                             current_location.terrain, current_rationing)
            IN  /\ resources' = consumption.rs
                /\ results' = [ results EXCEPT !.consumed = TRUE,
                                               !.shortages = DOMAIN consumption.shortages ]
       ELSE UNCHANGED << resources, results >>
    /\ pc' = pd_after("pd_consume")
    /\ UNCHANGED << ret, state, members, death_log, days_traveled, current_rationing,
                    current_pace, current_weather, miles_traveled, current_location_index,
                    current_event, idx, turns >>
    /\ UNCHANGED histVars
    /\ UNCHANGED date

\* every living member gets the condition
add_condition_to_alive(ms, condition) ==
    [ i \in 1..Len(ms) |-> IF is_alive(ms[i]) THEN add_condition(ms[i], condition) ELSE ms[i] ]

\* the shortage branches with a "no_water" morale event on the water shortage too
shortage_penalties_water_morale(ms, shortages) ==
    LET ms1 == IF "food" \in shortages
               THEN add_condition_to_alive(apply_morale_event(ms, "no_food"), "Starving") ELSE ms
    IN  IF "water" \in shortages
        THEN add_condition_to_alive(apply_morale_event(ms1, "no_food"), "Dehydrated") ELSE ms1

\* "Check for starvation" and the water branch after it: the members afterwards
shortage_penalties(ms, shortages) ==
    LET ms1 == IF "food" \in shortages
               THEN add_condition_to_alive(apply_morale_event(ms, "no_food"), "Starving") ELSE ms
    IN  IF "water" \in shortages
        THEN add_condition_to_alive(ms1, "Dehydrated") ELSE ms1

ProcessDayPenalties ==
    /\ pc = "pd_penalty"
    /\ members' = shortage_penalties(members, results.shortages)
    /\ results' = [ results EXCEPT !.events =
                      @ \o (IF "food" \in results.shortages THEN << "The party is starving!" >> ELSE << >>)
                        \o (IF "water" \in results.shortages THEN << "The party is dehydrated!" >> ELSE << >>) ]
    /\ pc' = pd_after("pd_penalty")
    /\ UNCHANGED << resources, ret, state, death_log, days_traveled, current_rationing,
                    current_pace, current_weather, miles_traveled, current_location_index,
                    current_event, idx, turns >>
    /\ UNCHANGED histVars
    /\ UNCHANGED date

\* "2. Apply resource decay"
ProcessDayDecay ==
    /\ pc = "pd_decay"
    /\ resources' = apply_daily_decay(resources, current_weather)
    /\ results' = [ results EXCEPT !.decay =
                      { k \in ResourceType : resources'[k].quantity < resources[k].quantity } ]
    /\ pc' = pd_after("pd_decay")
    /\ idx' = 1
    /\ UNCHANGED << ret, state, members, death_log, days_traveled, current_rationing,
                    current_pace, current_weather, miles_traveled, current_location_index,
                    current_event, turns >>
    /\ UNCHANGED histVars
    /\ UNCHANGED date

\* the draws daily_update makes for this player (the others are never made)
RollsFor(p) ==
    { r \in DailyRolls :
        /\ (is_healthy(p) /\ p.morale < 50) \/ r.recovery = 1
        /\ InList("Injured", p.conditions) \/ ~r.worsen
        /\ \A c \in r.recover : InList(c, p.conditions) }

\* one death in the member loop with the "death" morale event left out
member_death_no_morale(ms) == ms

\* one death in the member loop: apply_morale_event("death")
member_death(ms) == apply_morale_event(ms, "death")

\* "3. Process each member's daily update": one pass of the loop body
ProcessDayMember ==
    /\ pc = "pd_member"
    /\ IF idx > Len(members)
       THEN /\ pc' = pd_after("pd_member")
            /\ UNCHANGED << members, death_log, results, idx >>
       ELSE /\ IF is_alive(members[idx])
               THEN \E rolls \in RollsFor(members[idx]) :
                      LET update == Player_daily_update(members[idx], rolls)
                          ms1 == [ members EXCEPT ![idx] = update.p ]
                      IN  IF update.died
                          THEN /\ death_log' = record_death(death_log, update.p, "conditions", days_traveled)
                               /\ results' = [ results EXCEPT
                                                 !.deaths = Append(@, update.p.name),
                                                 !.events = Append(@, update.p.name) ]
                               /\ members' = member_death(ms1)
                          ELSE /\ members' = ms1
                               /\ UNCHANGED << death_log, results >>
               ELSE UNCHANGED << members, death_log, results >>
            /\ idx' = idx + 1
            /\ pc' = pc
    /\ UNCHANGED << resources, ret, state, days_traveled, current_rationing, current_pace,
                    current_weather, miles_traveled, current_location_index, current_event, turns >>
    /\ UNCHANGED histVars
    /\ UNCHANGED date

\* "4. Weather effects on morale"
ProcessDayWeather ==
    /\ pc = "pd_weather"
    /\ \E good \in BOOLEAN :
         /\ good => current_weather = "clear"
         /\ IF current_weather \in {"storm", "blizzard"}
            THEN /\ members' = apply_morale_event(members, "bad_weather")
                 /\ results' = [ results EXCEPT !.events = Append(@, "The harsh weather dampens spirits.") ]
            ELSE /\ members' = IF good THEN apply_morale_event(members, "good_weather") ELSE members
                 /\ UNCHANGED results
    /\ pc' = pd_after("pd_weather")
    /\ UNCHANGED << resources, ret, state, death_log, days_traveled, current_rationing,
                    current_pace, current_weather, miles_traveled, current_location_index,
                    current_event, idx, turns >>
    /\ UNCHANGED histVars
    /\ UNCHANGED date

\* "5. Low food warning morale hit": days_of_supplies(self.alive_count), rationing "normal"
ProcessDayLowFood ==
    /\ pc = "pd_lowfood"
    /\ LET food_days == days_of_food(resources, alive_count(members), "normal")
       IN  IF food_days < 3 /\ food_days > 0
           THEN /\ members' = apply_morale_event(members, "low_food")
                /\ results' = [ results EXCEPT !.warnings = Append(@, "Food supplies are critically low!") ]
           ELSE UNCHANGED << members, results >>
    /\ pc' = pd_after("pd_lowfood")
    /\ UNCHANGED << resources, ret, state, death_log, days_traveled, current_rationing,
                    current_pace, current_weather, miles_traveled, current_location_index,
                    current_event, idx, turns >>
    /\ UNCHANGED histVars
    /\ UNCHANGED date

\* Game._travel after process_day returned: _check_for_event, generate_weather
TravelEnd ==
    /\ pc = "travel_end"
    /\ \E trigger \in BOOLEAN :
         IF trigger /\ select_random_event(events, recent_events) # {}
         THEN /\ state' = "EVENT"
              /\ current_event' \in select_random_event(events, recent_events)
         ELSE UNCHANGED << state, current_event >>
    /\ \E drawn \in WeatherChoices :
         LET g == generate_weather(recent_weather, drawn)
         IN  /\ current_weather' = g.current_weather
             /\ recent_weather' = g.recent_weather
    /\ results' = NoResults
    /\ idx' = 0
    /\ pc' = "idle"
    /\ UNCHANGED << resources, ret, members, death_log, days_traveled, current_rationing,
                    current_pace, miles_traveled, current_location_index, turns >>
    /\ UNCHANGED << recent_events, hunting_history, crossing_history >>
    /\ UNCHANGED date

(***************************************************************************)
(* Party.rest(days) and Game._rest                                         *)
(***************************************************************************)
\* the inner loop of Party.rest for member i: heal by randint(5, 15), then each
\* Exhausted / Injured condition clears on a 30% roll; the possible outcomes
rest_member(p, has_medic) ==
    { LET healed == Player_heal(p, heal_amount, has_medic)
      IN  [ healed EXCEPT !.conditions =
              SelectSeq(healed.conditions, LAMBDA c : c \notin cleared) ] :
        heal_amount \in RestHeal,
        cleared \in SUBSET { c \in {"Exhausted", "Injured"} : InList(c, p.conditions) } }

\* the loop over alive_members of one rest day, from member i on
RECURSIVE rest_members(_, _, _)
rest_members(ms, i, has_medic) ==
    IF i > Len(ms) THEN { ms }
    ELSE IF ~is_alive(ms[i]) THEN rest_members(ms, i + 1, has_medic)
    ELSE UNION { rest_members([ ms EXCEPT ![i] = q ], i + 1, has_medic) :
                    q \in rest_member(ms[i], has_medic) }

\* one pass of the loop of Party.rest that also lets the stores decay
rest_day_with_decay(st, rationing) ==
    { [ ms |-> apply_morale_event(ms1, "rest_day"),
        rs |-> apply_daily_decay(
                  consume_daily(st.rs, alive_count(ms1), "plains", rationing).rs, "clear"),
        days |-> st.days + 1 ] :
        ms1 \in rest_members(st.ms, 1, has_role(st.ms, "Medic")) }

\* one pass of the loop of Party.rest: days_traveled += 1, healing, the
\* "rest_day" morale event, consume_daily on the default terrain
rest_day(st, rationing) ==
    { [ ms |-> apply_morale_event(ms1, "rest_day"),
        rs |-> consume_daily(st.rs, alive_count(ms1), "plains", rationing).rs,
        days |-> st.days + 1 ] :
        ms1 \in rest_members(st.ms, 1, has_role(st.ms, "Medic")) }

\* Party.rest(days): the possible outcomes of the whole loop
RECURSIVE Party_rest(_, _, _)
Party_rest(st, days, rationing) ==
    IF days = 0 THEN { st }
    ELSE UNION { Party_rest(st1, days - 1, rationing) : st1 \in rest_day(st, rationing) }

\* Game._rest: Party.rest(days), then generate_weather for each day rested
Rest ==
    /\ TurnOpen
    /\ turns' = turns + 1
    /\ \E days \in RestDays :
         \E out \in Party_rest([ ms |-> members, rs |-> resources, days |-> days_traveled ],
                               days, current_rationing) :
            /\ members' = out.ms
            /\ resources' = out.rs
            /\ days_traveled' = out.days
         /\ \E draws \in [ 1..days -> WeatherChoices ] :
              LET g == generate_weathers(recent_weather, current_weather, draws)
              IN  /\ current_weather' = g.current_weather
                  /\ recent_weather' = g.recent_weather
    /\ UNCHANGED << ret, state, death_log, current_rationing, current_pace, miles_traveled,
                    current_location_index, current_event, pc, idx, results >>
    /\ UNCHANGED << recent_events, hunting_history, crossing_history >>
    /\ UNCHANGED date

\* Party.rest(days) called on a party with its stores
PartyRest ==
    /\ turns < MaxTurns
    /\ turns' = turns + 1
    /\ \E days \in RestDays :
         \E out \in Party_rest([ ms |-> members, rs |-> resources, days |-> days_traveled ],
                               days, current_rationing) :
            /\ members' = out.ms
            /\ resources' = out.rs
            /\ days_traveled' = out.days
            /\ ret' = [ op |-> "rest", kind |-> current_rationing, amount |-> days,
                        value |-> turns' ]
    /\ UNCHANGED << state, death_log, current_rationing, current_pace, current_weather,
                    miles_traveled, current_location_index, current_event, pc, idx, results >>
    /\ UNCHANGED histVars
    /\ UNCHANGED date

\* Party.set_rationing(level): False and no change for an unknown level
PartySetRationing ==
    /\ turns < MaxTurns
    /\ turns' = turns + 1
    /\ \E level \in Rationing \cup {"feast"} :
         /\ current_rationing' = IF level \in Rationing THEN level ELSE current_rationing
         /\ ret' = [ op |-> "set_rationing", kind |-> level,
                     amount |-> IF level \in Rationing THEN 1 ELSE 0, value |-> turns' ]
    /\ UNCHANGED << resources, state, members, death_log, days_traveled, current_pace,
                    current_weather, miles_traveled, current_location_index, current_event,
                    pc, idx, results >>
    /\ UNCHANGED histVars
    /\ UNCHANGED date

\* a party at rest: normal rationing, little or much food and water, one
\* member exhausted and injured
RestInit ==
    /\ \E food \in RestInitFood, water \in RestInitWater :
         resources = set_quantity(set_quantity(initialize_resources, "food", food * Scale),
                                  "water", water * Scale)
    /\ ret = NoReturn
    /\ state = "PLAYING"
    /\ members = [ default_members EXCEPT
                     ![1] = add_condition(add_condition(@, "Exhausted"), "Injured") ]
    /\ death_log = << >>
    /\ days_traveled = 0
    /\ current_rationing = "normal"
    /\ current_pace = "normal"
    /\ current_weather = "clear"
    /\ miles_traveled = 0
    /\ current_location_index = 1
    /\ current_event = NoEvent
    /\ pc = "idle"
    /\ idx = 0
    /\ results = NoResults
    /\ turns = 0
    /\ recent_weather = << >>
    /\ recent_events = << >>
    /\ hunting_history = << >>
    /\ crossing_history = << >>
    /\ date = 0

RestNext == PartyRest \/ PartySetRationing

SpecRest == RestInit /\ [][RestNext]_vars

(***************************************************************************)
(* Game._hunt, Game._handle_event, Game._change_rations                    *)
(***************************************************************************)
\* the random draws of one HuntingManager.hunt at the normal style: ammunition
\* the animal costs, the success and injury rolls, the injury and the yield
HuntDraws ==
    [ base_ammo : HuntAmmoCost, success : BOOLEAN, hunter_injured : BOOLEAN,
      injury_damage : HuntInjuryDamage, base_yield : HuntFoodYield ]

\* HuntingManager.hunt that goes hunting whatever ammunition there is
HuntingManager_hunt_no_floor(ammo_available, animal_found, d) ==
    LET ammo_used == Min(d.base_ammo, ammo_available)
    IN  [ result |-> [ success |-> d.success,
                       food_gained |-> IF d.success THEN d.base_yield ELSE 0,
                       ammo_used |-> ammo_used,
                       hunter_injured |-> d.hunter_injured,
                       injury_damage |-> IF d.hunter_injured THEN d.injury_damage ELSE 0,
                       time_spent |-> 4,
                       message |-> IF d.success THEN "hunted" ELSE "hunt failed" ],
          recorded |-> TRUE ]

\* HuntingManager.hunt (style NORMAL): the HuntingResult and whether
\* _record_hunt put it in the history
HuntingManager_hunt(ammo_available, animal_found, d) ==
    IF ammo_available < 2
    THEN [ result |-> [ success |-> FALSE, food_gained |-> 0, ammo_used |-> 0,
                        hunter_injured |-> FALSE, injury_damage |-> 0, time_spent |-> 1,
                        message |-> "Not enough ammunition to hunt!" ],
           recorded |-> FALSE ]
    ELSE IF ~animal_found
    THEN [ result |-> [ success |-> FALSE, food_gained |-> 0, ammo_used |-> 0,
                        hunter_injured |-> FALSE, injury_damage |-> 0, time_spent |-> 4,
                        message |-> "No game could be found in this area." ],
           recorded |-> FALSE ]
    ELSE LET ammo_used == Min(d.base_ammo, ammo_available)
         IN  [ result |-> [ success |-> d.success,
                            food_gained |-> IF d.success THEN d.base_yield ELSE 0,
                            ammo_used |-> ammo_used,
                            hunter_injured |-> d.hunter_injured,
                            injury_damage |-> IF d.hunter_injured THEN d.injury_damage ELSE 0,
                            time_spent |-> 4,
                            message |-> IF d.success THEN "hunted" ELSE "hunt failed" ],
               recorded |-> TRUE ]

\* HuntingManager._record_hunt
record_hunt(history, hunt) ==
    IF hunt.recorded THEN Append(history, hunt.result) ELSE history

\* Game._hunt: no weapon, no hunter, not enough ammunition or "Cancel" end it
\* at once; otherwise HuntingManager.hunt runs and its result is applied
Hunt ==
    /\ TurnOpen
    /\ turns' = turns + 1
    /\ LET hunter == get_best_for_skill(members, "hunting")
           ammo == get_quantity(resources, "ammunition")
       IN  \E proceeds \in BOOLEAN, d \in HuntDraws :
             IF hunter = 0
             THEN /\ ret' = [ op |-> "hunt", kind |-> "No one is able to hunt right now.",
                              amount |-> ammo, value |-> turns' ]
                  /\ UNCHANGED << members, resources, hunting_history >>
             ELSE IF ammo < 2 * Scale
             THEN /\ ret' = [ op |-> "hunt", kind |-> "Not enough ammunition to hunt!",
                              amount |-> ammo, value |-> turns' ]
                  /\ UNCHANGED << members, resources, hunting_history >>
             ELSE IF ~proceeds
             THEN /\ ret' = [ op |-> "hunt", kind |-> "Cancel", amount |-> ammo, value |-> turns' ]
                  /\ UNCHANGED << members, resources, hunting_history >>
             ELSE LET hunt == HuntingManager_hunt(ammo \div Scale, TRUE, d)
                      result == hunt.result
                      rs1 == IF result.success
                             THEN ResourceManager_add(resources, "food", result.food_gained * Scale).rs
                             ELSE resources
                      ms1 == apply_morale_event(members,
                                IF result.success THEN "successful_hunt" ELSE "failed_hunt")
                      ms2 == IF result.hunter_injured
                             THEN [ ms1 EXCEPT ![hunter] =
                                      add_condition(Player_take_damage(@, result.injury_damage).p, "Injured") ]
                             ELSE ms1
                  IN  /\ resources' = ResourceManager_remove(rs1, "ammunition", result.ammo_used * Scale).rs
                      /\ members' = ms2
                      /\ hunting_history' = record_hunt(hunting_history, hunt)
                      /\ ret' = [ op |-> "hunt", kind |-> result.message, amount |-> ammo,
                                  value |-> turns' ]
    /\ UNCHANGED << state, death_log, days_traveled, current_rationing, current_pace,
                    current_weather, miles_traveled, current_location_index, current_event,
                    pc, idx, results, recent_weather, recent_events, crossing_history >>
    /\ UNCHANGED date

\* a direct call HuntingManager.hunt(ammo_available=...), on a terrain with or
\* without game; the caller applies nothing
HuntCall ==
    /\ turns < MaxTurns
    /\ turns' = turns + 1
    /\ \E ammo_available \in HuntAmmoAvailable, animal_found \in BOOLEAN, d \in HuntDraws :
         LET hunt == HuntingManager_hunt(ammo_available, animal_found, d)
         IN  /\ hunting_history' = record_hunt(hunting_history, hunt)
             /\ ret' = [ op |-> "hunt_call", kind |-> hunt.result.message,
                         amount |-> ammo_available * Scale, value |-> turns',
                         result |-> hunt.result ]
    /\ UNCHANGED << resources, state, members, death_log, days_traveled, current_rationing,
                    current_pace, current_weather, miles_traveled, current_location_index,
                    current_event, pc, idx, results, recent_weather, recent_events,
                    crossing_history >>
    /\ UNCHANGED date

\* a party on the trail with little or much ammunition
HuntInit ==
    /\ \E ammo \in HuntInitAmmunition :
         resources = set_quantity(set_quantity(initialize_resources, "food", 20 * Scale),
                                  "ammunition", ammo)
    /\ ret = NoReturn
    /\ state = "PLAYING"
    /\ members = default_members
    /\ death_log = << >>
    /\ days_traveled = 0
    /\ current_rationing = "normal"
    /\ current_pace = "normal"
    /\ current_weather = "clear"
    /\ miles_traveled = 0
    /\ current_location_index = 1
    /\ current_event = NoEvent
    /\ pc = "idle"
    /\ idx = 0
    /\ results = NoResults
    /\ turns = 0
    /\ recent_weather = << >>
    /\ recent_events = << >>
    /\ hunting_history = << >>
    /\ crossing_history = << >>
    /\ date = 0

HuntNext == Hunt \/ HuntCall

SpecHunt == HuntInit /\ [][HuntNext]_vars

(***************************************************************************)
(* TravelManager: the weather history, scouting, to_dict and load_state     *)
(***************************************************************************)
\* what the weather operations leave alone
weatherRest == << resources, state, members, death_log, days_traveled, current_rationing,
                  current_pace, miles_traveled, current_location_index, current_event,
                  pc, idx, results, turns, recent_events, hunting_history, crossing_history >>

\* no dict saved yet
NoSave == [ present |-> FALSE, current_weather |-> "clear", recent_weather |-> << >> ]

\* TravelManager.__init__: clear weather and an empty history
WeatherInit ==
    /\ resources = initialize_resources
    /\ ret = [ op |-> "none", value |-> "none", saved |-> NoSave ]
    /\ state = "PLAYING"
    /\ members = default_members
    /\ death_log = << >>
    /\ days_traveled = 0
    /\ current_rationing = "normal"
    /\ current_pace = "normal"
    /\ current_weather = "clear"
    /\ miles_traveled = 0
    /\ current_location_index = 1
    /\ current_event = NoEvent
    /\ pc = "idle"
    /\ idx = 0
    /\ results = NoResults
    /\ turns = 0
    /\ recent_weather = << >>
    /\ recent_events = << >>
    /\ hunting_history = << >>
    /\ crossing_history = << >>
    /\ date = 0

\* TravelManager.generate_weather: returns the weather drawn
GenerateWeather ==
    /\ \E drawn \in WeatherChoices :
         LET g == generate_weather(recent_weather, drawn)
         IN  /\ current_weather' = g.current_weather
             /\ recent_weather' = g.recent_weather
             /\ ret' = [ op |-> "generate_weather", value |-> drawn, saved |-> ret.saved ]
    /\ UNCHANGED weatherRest
    /\ UNCHANGED date

\* TravelManager.scout_ahead: with or without the weather forecast
ScoutAhead ==
    /\ \E forecast \in BOOLEAN, drawn \in WeatherChoices :
         LET sc == scout_ahead_weather(recent_weather, current_weather, forecast, drawn)
         IN  /\ current_weather' = sc.current_weather
             /\ recent_weather' = sc.recent_weather
             /\ ret' = [ op |-> "scout_ahead", value |-> sc.weather_forecast, saved |-> ret.saved ]
    /\ UNCHANGED weatherRest
    /\ UNCHANGED date

\* TravelManager.to_dict: the dict holds current_weather and recent_weather
TravelToDict ==
    /\ ret' = [ op |-> "to_dict", value |-> "none",
                saved |-> [ present |-> TRUE, current_weather |-> current_weather,
                            recent_weather |-> recent_weather ] ]
    /\ UNCHANGED << current_weather, recent_weather >>
    /\ UNCHANGED weatherRest
    /\ UNCHANGED date

\* TravelManager.load_state of a dict to_dict returned earlier
TravelLoadState ==
    /\ ret.saved.present
    /\ current_weather' = ret.saved.current_weather
    /\ recent_weather' = ret.saved.recent_weather
    /\ ret' = [ op |-> "load_state", value |-> "none", saved |-> ret.saved ]
    /\ UNCHANGED weatherRest
    /\ UNCHANGED date

WeatherNext == GenerateWeather \/ ScoutAhead \/ TravelToDict \/ TravelLoadState

SpecWeather == WeatherInit /\ [][WeatherNext]_vars

(***************************************************************************)
(* Player: add_condition, remove_condition, to_dict and from_dict           *)
(***************************************************************************)
\* the conditions the calls are made with
PlayerConditions == {"Healthy", "Injured", "Exhausted", "Infection"}

\* Player.to_dict: the fields saved, the conditions by their values
Player_to_dict(p) ==
    [ name |-> p.name, role |-> p.role, health |-> p.health, max_health |-> p.max_health,
      morale |-> p.morale, conditions |-> p.conditions, days_survived |-> p.days_survived,
      is_alive |-> p.alive_flag ]

\* the loop of Player.from_dict over data["conditions"]: every name that is
\* the value of a Condition is appended, in order
RECURSIVE restore_conditions(_, _)
restore_conditions(p, names) ==
    IF names = << >> THEN p
    ELSE restore_conditions(
            IF Head(names) \in Condition
            THEN [ p EXCEPT !.conditions = Append(p.conditions, Head(names)) ] ELSE p,
            Tail(names))

\* Player.from_dict
Player_from_dict(data) ==
    restore_conditions(
        [ Player(data.name, data.role, data.health, data.morale) EXCEPT
            !.max_health = data.max_health, !.days_survived = data.days_survived,
            !.alive_flag = data.is_alive ],
        data.conditions)

\* what the calls on the player leave alone
playerRest == << resources, state, death_log, days_traveled, current_rationing, current_pace,
                 current_weather, miles_traveled, current_location_index, current_event,
                 pc, idx, results, turns, histVars, date >>

\* no dict saved yet
NoPlayerSave == [ present |-> FALSE, data |-> Player_to_dict(Player("none", "Traveler", 100, 75)) ]

\* one player, as Player.__init__ leaves it
PlayerInit ==
    /\ resources = initialize_resources
    /\ ret = [ op |-> "none", kind |-> "none", value |-> FALSE, saved |-> NoPlayerSave ]
    /\ state = "PLAYING"
    /\ members = << Player("John Walker", "Trail Leader", 100, 75) >>
    /\ death_log = << >>
    /\ days_traveled = 0
    /\ current_rationing = "normal"
    /\ current_pace = "normal"
    /\ current_weather = "clear"
    /\ miles_traveled = 0
    /\ current_location_index = 1
    /\ current_event = NoEvent
    /\ pc = "idle"
    /\ idx = 0
    /\ results = NoResults
    /\ turns = 0
    /\ recent_weather = << >>
    /\ recent_events = << >>
    /\ hunting_history = << >>
    /\ crossing_history = << >>
    /\ date = 0

\* a call player.add_condition(c): True when the condition was added
PlayerAddCondition ==
    /\ \E c \in PlayerConditions :
         LET after == add_condition(members[1], c)
         IN  /\ members' = << after >>
             /\ ret' = [ op |-> "add_condition", kind |-> c,
                         value |-> (~InList(c, members[1].conditions) /\ c # "Healthy"),
                         saved |-> ret.saved ]
    /\ UNCHANGED playerRest

\* a call player.remove_condition(c): True when the condition was removed
PlayerRemoveCondition ==
    /\ \E c \in PlayerConditions :
         LET after == remove_condition(members[1], c)
         IN  /\ members' = << after >>
             /\ ret' = [ op |-> "remove_condition", kind |-> c,
                         value |-> InList(c, members[1].conditions), saved |-> ret.saved ]
    /\ UNCHANGED playerRest

\* a call player.to_dict()
PlayerToDict ==
    /\ ret' = [ op |-> "to_dict", kind |-> "none", value |-> FALSE,
                saved |-> [ present |-> TRUE, data |-> Player_to_dict(members[1]) ] ]
    /\ UNCHANGED members
    /\ UNCHANGED playerRest

\* Player.from_dict of a dict to_dict returned earlier
PlayerFromDict ==
    /\ ret.saved.present
    /\ members' = << Player_from_dict(ret.saved.data) >>
    /\ ret' = [ op |-> "from_dict", kind |-> "none", value |-> FALSE, saved |-> ret.saved ]
    /\ UNCHANGED playerRest

PlayerNext == PlayerAddCondition \/ PlayerRemoveCondition \/ PlayerToDict \/ PlayerFromDict

SpecPlayer == PlayerInit /\ [][PlayerNext]_vars

(***************************************************************************)
(* Party.process_day with the draws of the random module taken from one     *)
(* seeded stream, run twice side by side                                    *)
(***************************************************************************)
\* the values a draw of the stream can have, as percentages, and the length
\* after which the modelled stream repeats
DrawValues == {2, 20, 60}
StreamLen == 3

\* the pos-th draw of the stream the seed fixed
draw(stream, pos) == stream[((pos - 1) % StreamLen) + 1]

\* the draws one pass of the loop over self.conditions[:] in daily_update
\* makes: random() < 0.10 for Injured, random() < 0.05 for Exhausted and
\* Injured
seeded_condition_roll(c, stream, acc) ==
    LET a1 == IF c = "Injured"
              THEN [ acc EXCEPT !.rolls.worsen = draw(stream, acc.pos) < 10,
                                !.pos = acc.pos + 1 ]
              ELSE acc
    IN  IF c \in {"Exhausted", "Injured"}
        THEN [ a1 EXCEPT !.rolls.recover =
                             IF draw(stream, a1.pos) < 5 THEN @ \cup {c} ELSE @,
                         !.pos = a1.pos + 1 ]
        ELSE a1

\* the loop over self.conditions[:], in list order; accs holds the rolls and
\* the stream position so far
RECURSIVE seeded_condition_rolls(_, _, _)
seeded_condition_rolls(copy, stream, accs) ==
    IF copy = << >> THEN accs
    ELSE seeded_condition_rolls(Tail(copy), stream,
            { seeded_condition_roll(Head(copy), stream, acc) : acc \in accs })

\* the draws one daily_update of a living player makes: randint(1, 3) when
\* healthy with morale under 50, then the loop over the conditions
seeded_daily_rolls(p, stream, pos) ==
    LET recovers == is_healthy(p) /\ p.morale < 50
    IN  seeded_condition_rolls(p.conditions, stream,
            { [ rolls |-> [ recovery |-> IF recovers THEN 1 + (draw(stream, pos) % 3) ELSE 1,
                            worsen |-> FALSE, recover |-> {} ],
                pos |-> IF recovers THEN pos + 1 ELSE pos ] })

\* one pass of "3. Process each member's daily update": member i of the run
\* st, with the rolls sr
seeded_member_update(st, i, sr) ==
    { IF update.died
      THEN [ st EXCEPT !.ms = member_death([ st.ms EXCEPT ![i] = update.p ]),
                       !.log = record_death(@, update.p, "conditions", st.days),
                       !.deaths = Append(@, update.p.name),
                       !.pos = sr.pos ]
      ELSE [ st EXCEPT !.ms = [ st.ms EXCEPT ![i] = update.p ], !.pos = sr.pos ] :
      update \in { Player_daily_update(st.ms[i], sr.rolls) } }

\* "3. Process each member's daily update" from member i to the last one
RECURSIVE seeded_member_updates(_, _, _, _)
seeded_member_updates(sts, i, last, stream) ==
    IF i > last THEN sts
    ELSE seeded_member_updates(
            UNION { IF ~is_alive(st.ms[i]) THEN { st }
                    ELSE UNION { seeded_member_update(st, i, sr) :
                                 sr \in seeded_daily_rolls(st.ms[i], stream, st.pos) } :
                    st \in sts },
            i + 1, last, stream)

\* "4. Weather effects on morale" with the good-weather roll made outside the
\* seeded stream
weather_morale_draw_unseeded(weather, stream, pos) ==
    IF weather = "clear" THEN { [ good |-> g, pos |-> pos ] : g \in BOOLEAN }
    ELSE { [ good |-> FALSE, pos |-> pos ] }

\* "4. Weather effects on morale": random() < 0.3 is drawn only in clear
\* weather; whether the good-weather event applies and the stream position
weather_morale_draw(weather, stream, pos) ==
    IF weather \in {"storm", "blizzard"} THEN { [ good |-> FALSE, pos |-> pos ] }
    ELSE IF weather = "clear" THEN { [ good |-> draw(stream, pos) < 30, pos |-> pos + 1 ] }
    ELSE { [ good |-> FALSE, pos |-> pos ] }

\* Party.process_day(terrain, weather) on the run st = [ms, rs, days, log, pos]:
\* the runs it can end in, each with the results dict it returns
process_day_seeded(st, terrain, weather, rationing, stream) ==
    LET day == st.days + 1
        anyone == alive_count(st.ms) > 0
        consumption == consume_daily(st.rs, alive_count(st.ms), terrain, rationing)
        shortages == IF anyone THEN DOMAIN consumption.shortages ELSE {}
    IN  UNION {
          { LET ms2 == IF weather \in {"storm", "blizzard"}
                       THEN apply_morale_event(upd.ms, "bad_weather")
                       ELSE IF w.good THEN apply_morale_event(upd.ms, "good_weather")
                       ELSE upd.ms
                food_days == days_of_food(upd.rs, alive_count(ms2), "normal")
                low == food_days < 3 /\ food_days > 0
            IN  [ ms |-> IF low THEN apply_morale_event(ms2, "low_food") ELSE ms2,
                  rs |-> upd.rs, days |-> day, log |-> upd.log, pos |-> w.pos,
                  report |-> [ day |-> day,
                               consumed |-> IF anyone THEN consumption.consumed
                                            ELSE [ food |-> 0, water |-> 0 ],
                               shortages |-> shortages, deaths |-> upd.deaths,
                               bad_weather |-> weather \in {"storm", "blizzard"},
                               low_food |-> low ] ] :
            w \in weather_morale_draw(weather, stream, upd.pos) } :
          upd \in seeded_member_updates(
                     { [ ms |-> shortage_penalties(st.ms, shortages),
                         rs |-> apply_daily_decay(IF anyone THEN consumption.rs ELSE st.rs,
                                                  weather),
                         log |-> st.log, deaths |-> << >>, pos |-> st.pos, days |-> day ] },
                     1, Len(st.ms), stream) }

\* the empty results of a run that has not processed a day
NoDayReport ==
    [ day |-> 0, consumed |-> [ food |-> 0, water |-> 0 ], shortages |-> {},
      deaths |-> << >>, bad_weather |-> FALSE, low_food |-> FALSE ]

\* a party with an injured and exhausted leader and a member in low spirits
seeded_members ==
    [ default_members EXCEPT
        ![1] = add_condition(add_condition(@, "Injured"), "Exhausted"),
        ![2] = [ @ EXCEPT !.morale = 40 ] ]

\* two runs start from the same party, stores and rationing level with the
\* same seed: the first run is the party itself, the second is kept in
\* ret.other
SeededInit ==
    /\ resources = set_quantity(set_quantity(initialize_resources, "food", 20 * Scale),
                                "water", 100 * Scale)
    /\ members = seeded_members
    /\ death_log = << >>
    /\ days_traveled = 0
    /\ results = NoDayReport
    /\ \E stream \in [ 1..StreamLen -> DrawValues ] :
         ret = [ op |-> "none", stream |-> stream, pos |-> 1,
                 other |-> [ ms |-> seeded_members, rs |-> resources, days |-> 0,
                             log |-> << >>, pos |-> 1, report |-> NoDayReport ] ]
    /\ state = "PLAYING"
    /\ current_rationing \in Rationing
    /\ current_pace = "normal"
    /\ current_weather = "clear"
    /\ miles_traveled = 0
    /\ current_location_index = 1
    /\ current_event = NoEvent
    /\ pc = "idle"
    /\ idx = 0
    /\ turns = 0
    /\ recent_weather = << >>
    /\ recent_events = << >>
    /\ hunting_history = << >>
    /\ crossing_history = << >>
    /\ date = 0

\* one day of both runs: the same terrain and weather go to process_day in
\* each, and each run draws from the stream at its own position
SeededDay ==
    /\ turns < MaxTurns
    /\ turns' = turns + 1
    /\ \E terrain \in SeededTerrains, weather \in WeatherChoices :
         \E one \in process_day_seeded(
                       [ ms |-> members, rs |-> resources, days |-> days_traveled,
                         log |-> death_log, pos |-> ret.pos ],
                       terrain, weather, current_rationing, ret.stream),
            two \in process_day_seeded(
                       [ ms |-> ret.other.ms, rs |-> ret.other.rs, days |-> ret.other.days,
                         log |-> ret.other.log, pos |-> ret.other.pos ],
                       terrain, weather, current_rationing, ret.stream) :
            /\ members' = one.ms
            /\ resources' = one.rs
            /\ days_traveled' = one.days
            /\ death_log' = one.log
            /\ results' = one.report
            /\ current_weather' = weather
            /\ ret' = [ op |-> "process_day", stream |-> ret.stream, pos |-> one.pos,
                        other |-> two ]
    /\ UNCHANGED << state, current_rationing, current_pace, miles_traveled,
                    current_location_index, current_event, pc, idx >>
    /\ UNCHANGED histVars
    /\ UNCHANGED date

SeededNext == SeededDay

SpecSeeded == SeededInit /\ [][SeededNext]_vars

(***************************************************************************)
(* ResourceManager.calculate_daily_consumption and consume_daily, day after *)
(* day with no replenishment                                                *)
(***************************************************************************)
\* the result of consume_daily before any call
NoConsumption ==
    [ consumed |-> [ food |-> 0, water |-> 0 ], needed |-> [ food |-> 0, water |-> 0 ],
      shortages |-> {} ]

\* a fresh ResourceManager whose food is set with set_quantity to the amount
\* asked for, for a party of one to four, at some terrain and rationing level
SuppliesInit ==
    /\ \E size \in 1..Len(default_members) : members = SubSeq(default_members, 1, size)
    /\ \E food \in SuppliesFood, terrain \in SuppliesTerrains :
         /\ resources = set_quantity(initialize_resources, "food", food * Scale)
         /\ ret = [ op |-> "set_quantity", terrain |-> terrain, requested |-> food * Scale,
                    daily |-> << >>, last |-> NoConsumption ]
    /\ current_rationing \in Rationing
    /\ death_log = << >>
    /\ days_traveled = 0
    /\ results = NoResults
    /\ state = "PLAYING"
    /\ current_pace = "normal"
    /\ current_weather = "clear"
    /\ miles_traveled = 0
    /\ current_location_index = 1
    /\ current_event = NoEvent
    /\ pc = "idle"
    /\ idx = 0
    /\ turns = 0
    /\ recent_weather = << >>
    /\ recent_events = << >>
    /\ hunting_history = << >>
    /\ crossing_history = << >>
    /\ date = 0

\* resources.calculate_daily_consumption(party_size, terrain, rationing) for
\* one more rationing level; ret.daily keeps the food figure of each level
CalculateDailyConsumption ==
    /\ \E rationing \in Rationing \ DOMAIN ret.daily :
         ret' = [ ret EXCEPT
                    !.op = "calculate_daily_consumption",
                    !.daily = [ r \in DOMAIN ret.daily \cup {rationing} |->
                                 calculate_daily_consumption(alive_count(members),
                                                             ret.terrain, r)["food"] ] ]
    /\ UNCHANGED << resources, state, members, death_log, days_traveled, current_rationing,
                    current_pace, current_weather, miles_traveled, current_location_index,
                    current_event, pc, idx, results, turns >>
    /\ UNCHANGED histVars
    /\ UNCHANGED date

\* resources.consume_daily(party_size, terrain, rationing), one day later
ConsumeDaily ==
    /\ days_traveled < MaxDays
    /\ LET consumption == consume_daily(resources, alive_count(members), ret.terrain,
                                        current_rationing)
       IN  /\ resources' = consumption.rs
           /\ ret' = [ ret EXCEPT
                         !.op = "consume_daily",
                         !.last = [ consumed |-> consumption.consumed,
                                    needed |-> calculate_daily_consumption(
                                                  alive_count(members), ret.terrain,
                                                  current_rationing),
                                    shortages |-> DOMAIN consumption.shortages ] ]
    /\ days_traveled' = days_traveled + 1
    /\ UNCHANGED << state, members, death_log, current_rationing, current_pace,
                    current_weather, miles_traveled, current_location_index,
                    current_event, pc, idx, results, turns >>
    /\ UNCHANGED histVars
    /\ UNCHANGED date

SuppliesNext == CalculateDailyConsumption \/ ConsumeDaily

SpecSupplies == SuppliesInit /\ [][SuppliesNext]_vars

(***************************************************************************)
(* RiverCrossingManager.attempt_crossing, TravelManager.attempt_river_crossing *)
(***************************************************************************)
CrossingMethod == {"ford", "caulk", "ferry", "bridge", "wait"}

\* river_crossing.py METHOD_INFO: time_hours and cost
METHOD_INFO ==
    [ ford   |-> [ time_hours |-> 2, cost |-> 0 ],
      caulk  |-> [ time_hours |-> 6, cost |-> 0 ],
      ferry  |-> [ time_hours |-> 3, cost |-> 25 ],
      bridge |-> [ time_hours |-> 1, cost |-> 5 ],
      wait   |-> [ time_hours |-> 0, cost |-> 0 ] ]

\* a RiverCrossingPoint with the default ferry_cost and bridge_toll
DefaultCrossing == [ id |-> "bow_river", ferry_cost |-> 25, bridge_toll |-> 5 ]

\* the party_members and supplies arguments of the calls
CrossingPartyMembers == << "John Walker", "Mary Walker" >>
CrossingSupplies == 100

\* the random draws of one attempt_crossing: the success roll, the failure
\* severity, whether the supply is lost and the fraction lost (percent), the
\* member injured, the death roll
CrossingDraws ==
    [ success : BOOLEAN, severity : {"partial", "major", "disaster"},
      lose : BOOLEAN, fraction : {20, 50}, injured : 1..2, death : BOOLEAN ]

\* CrossingResult with the dataclass defaults
CrossingResult(success, outcome, method) ==
    [ success |-> success, outcome |-> outcome, method |-> method,
      supplies_lost |-> 0, injuries |-> << >>, deaths |-> << >>,
      time_spent |-> 0, money_spent |-> 0 ]

\* attempt_crossing for a method that is resolved by the rolls; rolls counts
\* the random draws made
resolve_crossing(crossing, method, party_members, supplies, d) ==
    LET info == METHOD_INFO[method]
        money_spent == IF method = "ferry" THEN crossing.ferry_cost
                       ELSE IF method = "bridge" THEN crossing.bridge_toll
                       ELSE info.cost
        lost == (supplies * d.fraction) \div 100
        injured == party_members[d.injured]
        others == SelectSeq(party_members, LAMBDA m : m # injured)
        base == [ CrossingResult(FALSE, d.severity, method) EXCEPT
                    !.time_spent = info.time_hours, !.money_spent = money_spent ]
    IN  IF d.success
        THEN [ result |-> [ CrossingResult(TRUE, "success", method) EXCEPT
                              !.time_spent = info.time_hours, !.money_spent = money_spent ],
               rolls |-> 1 ]
        ELSE IF d.severity = "partial"
        THEN [ result |-> [ base EXCEPT !.supplies_lost = IF d.lose THEN lost ELSE 0 ],
               rolls |-> IF d.lose THEN 4 ELSE 3 ]
        ELSE IF d.severity = "major"
        THEN [ result |-> [ base EXCEPT !.supplies_lost = IF d.lose THEN lost ELSE 0,
                                        !.injuries = << injured >> ],
               rolls |-> IF d.lose THEN 5 ELSE 4 ]
        ELSE [ result |-> [ base EXCEPT !.supplies_lost = lost,
                                        !.injuries = << injured >>,
                                        !.deaths = IF d.death THEN << Head(others) >> ELSE << >> ],
               rolls |-> IF d.death THEN 6 ELSE 5 ]

\* attempt_crossing that resolves waiting by the rolls like any other method
attempt_crossing_wait_rolled(crossing, method, party_members, supplies, d) ==
    resolve_crossing(crossing, method, party_members, supplies, d)

\* RiverCrossingManager.attempt_crossing: waiting returns at once, before
\* any draw
attempt_crossing(crossing, method, party_members, supplies, d) ==
    IF method = "wait"
    THEN [ result |-> CrossingResult(TRUE, "cancelled", method), rolls |-> 0 ]
    ELSE resolve_crossing(crossing, method, party_members, supplies, d)

\* RiverCrossingManager.record_crossing
record_crossing(history, result, crossing_id) ==
    Append(history, [ crossing_id |-> crossing_id, result |-> result ])

\* what a river crossing leaves alone
riverRest == << resources, state, members, death_log, days_traveled, current_rationing,
                current_pace, current_weather, miles_traveled, current_location_index,
                current_event, pc, idx, results, recent_weather, recent_events,
                hunting_history, date >>

\* TravelManager.attempt_river_crossing: attempt_crossing, then record_crossing
AttemptRiverCrossing ==
    /\ turns < MaxTurns
    /\ turns' = turns + 1
    /\ \E method \in CrossingMethod, d \in CrossingDraws :
         LET a == attempt_crossing(DefaultCrossing, method, CrossingPartyMembers,
                                   CrossingSupplies, d)
         IN  /\ crossing_history' = record_crossing(crossing_history, a.result, DefaultCrossing.id)
             /\ ret' = [ op |-> "attempt_river_crossing", method |-> method,
                         result |-> a.result, rolls |-> a.rolls, value |-> turns' ]
    /\ UNCHANGED riverRest
    /\ UNCHANGED date

\* a party at a river crossing with 10 dollars
RiverInit ==
    /\ resources = set_quantity(initialize_resources, "money", 10 * Scale)
    /\ ret = [ op |-> "none", method |-> "none",
               result |-> CrossingResult(FALSE, "none", "none"), rolls |-> 0, value |-> 0 ]
    /\ state = "PLAYING"
    /\ members = default_members
    /\ death_log = << >>
    /\ days_traveled = 0
    /\ current_rationing = "normal"
    /\ current_pace = "normal"
    /\ current_weather \in WeatherChoices
    /\ miles_traveled = 0
    /\ current_location_index = 1
    /\ current_event = NoEvent
    /\ pc = "idle"
    /\ idx = 0
    /\ results = NoResults
    /\ turns = 0
    /\ recent_weather = << >>
    /\ recent_events = << >>
    /\ hunting_history = << >>
    /\ crossing_history = << >>
    /\ date = 0

RiverNext == AttemptRiverCrossing

SpecRiver == RiverInit /\ [][RiverNext]_vars

(***************************************************************************)
(* EventManager: selection, resolution, the cooldown, to_dict, load_state   *)
(***************************************************************************)
\* what the event operations leave alone
eventsRest == << resources, state, members, death_log, days_traveled, current_rationing,
                 current_pace, current_weather, miles_traveled, current_location_index,
                 pc, idx, results, turns, recent_weather, hunting_history, crossing_history >>

\* no dict saved yet
NoEventsSave == [ present |-> FALSE, recent_events |-> << >> ]

\* EventManager.__init__: no recent event
EventsInit ==
    /\ resources = initialize_resources
    /\ ret = [ op |-> "none", value |-> "None", saved |-> NoEventsSave ]
    /\ state = "PLAYING"
    /\ members = default_members
    /\ death_log = << >>
    /\ days_traveled = 0
    /\ current_rationing = "normal"
    /\ current_pace = "normal"
    /\ current_weather = "clear"
    /\ miles_traveled = 0
    /\ current_location_index = 1
    /\ current_event = NoEvent
    /\ pc = "idle"
    /\ idx = 0
    /\ results = NoResults
    /\ turns = 0
    /\ recent_weather = << >>
    /\ recent_events = << >>
    /\ hunting_history = << >>
    /\ crossing_history = << >>
    /\ date = 0

\* EventManager.select_random_event: the caller keeps the event returned
SelectRandomEvent ==
    /\ LET selectable == select_random_event(events, recent_events)
       IN  IF selectable = {}
           THEN /\ ret' = [ op |-> "select_random_event", value |-> "None", saved |-> ret.saved ]
                /\ UNCHANGED current_event
           ELSE \E e \in selectable :
                  /\ ret' = [ op |-> "select_random_event", value |-> e.id, saved |-> ret.saved ]
                  /\ current_event' = e
    /\ UNCHANGED recent_events
    /\ UNCHANGED eventsRest
    /\ UNCHANGED date

\* EventManager.resolve_choice of the event the caller holds: an error dict
\* for a choice that is out of range or unavailable, else the event is
\* recorded and put on cooldown
ResolveChoice ==
    /\ current_event # NoEvent
    /\ \E valid \in BOOLEAN :
         IF valid
         THEN /\ recent_events' = update_cooldown(recent_events, current_event.id)
              /\ ret' = [ op |-> "resolve_choice", value |-> current_event.id, saved |-> ret.saved ]
         ELSE /\ ret' = [ op |-> "resolve_choice", value |-> "error", saved |-> ret.saved ]
              /\ UNCHANGED recent_events
    /\ UNCHANGED current_event
    /\ UNCHANGED eventsRest
    /\ UNCHANGED date

\* EventManager.to_dict: the dict holds recent_events
EventsToDict ==
    /\ ret' = [ op |-> "to_dict", value |-> "None",
                saved |-> [ present |-> TRUE, recent_events |-> recent_events ] ]
    /\ UNCHANGED << current_event, recent_events >>
    /\ UNCHANGED eventsRest
    /\ UNCHANGED date

\* EventManager.load_state of a dict to_dict returned earlier
EventsLoadState ==
    /\ ret.saved.present
    /\ recent_events' = ret.saved.recent_events
    /\ ret' = [ op |-> "load_state", value |-> "None", saved |-> ret.saved ]
    /\ UNCHANGED current_event
    /\ UNCHANGED eventsRest
    /\ UNCHANGED date

EventsNext == SelectRandomEvent \/ ResolveChoice \/ EventsToDict \/ EventsLoadState

SpecEvents == EventsInit /\ [][EventsNext]_vars

\* EventManager.apply_effects, "health_damage": each member alive at the start
\* takes damage // len(party.alive_members), the divisor read anew each time
RECURSIVE event_health_damage(_, _, _, _)
event_health_damage(ms, ms0, i, damage) ==
    IF i > Len(ms) THEN ms
    ELSE IF ~is_alive(ms0[i]) THEN event_health_damage(ms, ms0, i + 1, damage)
    ELSE event_health_damage(
            [ ms EXCEPT ![i] = Player_take_damage(@, damage \div alive_count(ms)).p ],
            ms0, i + 1, damage)

\* Game._handle_event: EventManager.apply_effects of the outcome, back to PLAYING
HandleEvent ==
    /\ state = "EVENT" /\ pc = "idle"
    /\ LET e == current_event.effects
           ms1 == IF e.health_damage # 0
                  THEN event_health_damage(members, members, 1, e.health_damage) ELSE members
           ms2 == IF e.health_healed # 0 THEN heal_party(ms1, e.health_healed) ELSE ms1
           ms3 == IF e.morale # 0 THEN change_party_morale(ms2, e.morale) ELSE ms2
       IN  members' = ms3
    /\ recent_events' = update_cooldown(recent_events, current_event.id)
    /\ current_event' = NoEvent
    /\ state' = "PLAYING"
    /\ UNCHANGED << resources, ret, death_log, days_traveled, current_rationing, current_pace,
                    current_weather, miles_traveled, current_location_index, pc, idx,
                    results, turns >>
    /\ UNCHANGED << recent_weather, hunting_history, crossing_history >>
    /\ UNCHANGED date

GameNext ==
    \/ GameTurnVictory
    \/ GameTurnGameOver
    \/ EndScreen
    \/ ChangePace
    \/ TravelBegin
    \/ ProcessDayIncrement
    \/ ProcessDayConsume
    \/ ProcessDayPenalties
    \/ ProcessDayDecay
    \/ ProcessDayMember
    \/ ProcessDayWeather
    \/ ProcessDayLowFood
    \/ TravelEnd
    \/ Rest
    \/ Hunt
    \/ HandleEvent

SpecGame == GameInit /\ [][GameNext]_vars

(***************************************************************************)
(* Properties of the resource ledger                                       *)
(***************************************************************************)

\* C1: for every resource stock, after any sequence of add and remove calls
\* (zero, negative and oversized amounts included), 0 <= quantity <= capacity.
C1_QuantityWithinCapacity ==
    \A k \in ResourceType :
        /\ 0 <= resources[k].quantity
        /\ resources[k].quantity <= resources[k].max_capacity

\* an add larger than the free space was clamped at the capacity
C1_Witness ==
    /\ ret.op = "add"
    /\ ret.kind \in ResourceType
    /\ ret.value < ret.amount
    /\ ret.value > 0
    /\ resources[ret.kind].quantity = resources[ret.kind].max_capacity

\* C9: add and remove return the clamped delta actually applied: the value
\* returned equals the change the call made to the stock's quantity (and a
\* call on a kind the manager does not hold returns 0 and changes nothing).
C9_ReturnsAppliedDelta ==
    [][ LET k == ret'.kind
        IN  IF k \in ResourceType
            THEN /\ ret'.op = "add" =>
                        ret'.value = resources'[k].quantity - resources[k].quantity
                 /\ ret'.op = "remove" =>
                        ret'.value = resources[k].quantity - resources'[k].quantity
                 /\ \A j \in ResourceType \ {k} : resources'[j] = resources[j]
            ELSE ret'.value = 0 /\ resources' = resources
      ]_vars

\* a remove larger than the stock was partially fulfilled
C9_Witness ==
    /\ ret.op = "remove"
    /\ ret.kind \in ResourceType
    /\ ret.value > 0
    /\ ret.value < ret.amount
    /\ resources[ret.kind].quantity = 0

(***************************************************************************)
(* Properties of the travelers                                             *)
(***************************************************************************)

\* C2: take_damage never drives a member's health below 0, and in every
\* reachable state a member's health is 0 exactly when the member is not
\* alive (by the is_alive property and by the _is_alive flag alike).
C2_HealthZeroIffDead ==
    \A i \in 1..Len(members) :
        /\ members[i].health >= 0
        /\ members[i].health = 0 <=> ~is_alive(members[i])
        /\ members[i].health = 0 <=> ~members[i].alive_flag

\* a member died of damage larger than the health left (the pace took the
\* last points, before any day was processed), next to a living one
C2_Witness ==
    /\ pc = "pd_inc"
    /\ days_traveled = 0
    /\ \E i, j \in 1..Len(members) :
         /\ members[i].health = 0 /\ ~members[i].alive_flag
         /\ is_alive(members[j]) /\ members[j].health < 30

\* C3: a member that is not alive is not alive after any step either:
\* healing, resting, events, morale changes and daily updates never bring
\* a dead member back.
C3_NoResurrection ==
    [][ \A i \in 1..Len(members) :
            ~is_alive(members[i]) =>
                /\ i <= Len(members')
                /\ ~is_alive(members'[i])
                /\ members'[i].health = 0 ]_vars

\* a member has been dead through two whole days of rest and healing of the others
C3_Witness ==
    /\ pc = "idle"
    /\ state = "PLAYING"
    /\ \E i, j \in 1..Len(members) :
         /\ ~is_alive(members[i])
         /\ days_traveled >= members[i].days_survived + 2
         /\ is_alive(members[j])
         /\ members[j].morale > 75

(***************************************************************************)
(* Properties of Party.process_day                                         *)
(***************************************************************************)

\* C4: within one process_day the steps run in the strict order: increment
\* days_traveled, consume resources, shortage penalties (morale event and
\* Starving / Dehydrated), resource decay, the members' daily updates, the
\* weather morale event, the low-food warning; each step touches only what
\* is its own, and when decay touches the stock the shortage has already
\* been detected and penalized.
C4_ProcessDayOrder ==
    [][ /\ (pc = "idle" /\ pc' # "idle") => pc' = "pd_inc"
        /\ pc = "pd_inc" =>
              /\ pc' = "pd_consume"
              /\ days_traveled' = days_traveled + 1
              /\ UNCHANGED << resources, members >>
        /\ pc = "pd_consume" =>
              /\ pc' = "pd_penalty"
              /\ UNCHANGED << days_traveled, members >>
              /\ results'.consumed <=> alive_count(members) > 0
        /\ pc = "pd_penalty" =>
              /\ pc' = "pd_decay"
              /\ UNCHANGED << days_traveled, resources >>
        /\ pc = "pd_decay" =>
              /\ pc' = "pd_member"
              /\ UNCHANGED << days_traveled, members >>
              /\ results.consumed <=> alive_count(members) > 0
              /\ "food" \in results.shortages =>
                    \A i \in alive_members(members) : InList("Starving", members[i].conditions)
              /\ "water" \in results.shortages =>
                    \A i \in alive_members(members) : InList("Dehydrated", members[i].conditions)
        /\ pc = "pd_member" =>
              /\ pc' \in {"pd_member", "pd_weather"}
              /\ UNCHANGED << days_traveled, resources >>
        /\ pc = "pd_weather" =>
              /\ pc' = "pd_lowfood"
              /\ UNCHANGED << days_traveled, resources, death_log >>
        /\ pc = "pd_lowfood" =>
              /\ pc' = "travel_end"
              /\ UNCHANGED << days_traveled, resources, death_log >>
      ]_vars

\* decay is about to touch a stock that is not empty, on a day whose food
\* shortage has been detected and penalized
C4_Witness ==
    /\ pc = "pd_decay"
    /\ results.day = days_traveled
    /\ "food" \in results.shortages
    /\ resources["water"].quantity > 0
    /\ \E i \in alive_members(members) :
         InList("Starving", members[i].conditions) /\ members[i].morale < 75

\* C5: each death in the member loop of process_day applies the "death"
\* morale event to the whole living party at once, so that k deaths on one
\* day apply it k times: the step that logs a death lowers the morale of
\* every other living member by 25 (down to 0 at most).
C5_DeathMoralePerDeath ==
    [][ (pc = "pd_member" /\ Len(death_log') = Len(death_log) + 1) =>
            \A j \in 1..Len(members) :
                (j # idx /\ is_alive(members[j])) =>
                    members'[j].morale = Max(0, members[j].morale + MORALE_EVENTS["death"])
      ]_vars

\* two members died on the same processed day and the survivor, whose own
\* update is still to come, carries the food-shortage event and two death events
C5_Witness ==
    /\ pc = "pd_member"
    /\ idx = 3
    /\ Len(results.deaths) = 2
    /\ Len(death_log) = 2
    /\ is_alive(members[3])
    /\ members[3].morale = 75 + MORALE_EVENTS["no_food"] + 2 * MORALE_EVENTS["death"]

\* C6 as stated: on a water shortage process_day applies a morale event and
\* adds Dehydrated to every living member, as it does on a food shortage
\* with Starving: on a day short of water only, every living member gets
\* the condition and a morale that was strictly inside 0..100 moves.
C6_WaterShortageMoraleEvent ==
    [][ (pc = "pd_penalty" /\ "water" \in results.shortages /\ "food" \notin results.shortages) =>
            \A i \in alive_members(members) :
                /\ InList("Dehydrated", members'[i].conditions)
                /\ members[i].morale \in 1..99 => members'[i].morale # members[i].morale
      ]_vars

\* C6 amended: a food shortage applies the "no_food" morale event and adds
\* Starving to every living member; a water shortage adds Dehydrated to
\* every living member and applies no morale event: without a food
\* shortage the penalty step leaves every morale as it was.
C6_ShortagePenalties ==
    [][ pc = "pd_penalty" =>
            \A i \in 1..Len(members) :
                /\ ("food" \in results.shortages /\ is_alive(members[i])) =>
                      /\ InList("Starving", members'[i].conditions)
                      /\ members'[i].morale = Max(0, members[i].morale + MORALE_EVENTS["no_food"])
                /\ ("water" \in results.shortages /\ is_alive(members[i])) =>
                      InList("Dehydrated", members'[i].conditions)
                /\ "food" \notin results.shortages => members'[i].morale = members[i].morale
                /\ ~is_alive(members[i]) => members'[i] = members[i]
      ]_vars

\* a day short of water only has been penalized: the living are Dehydrated,
\* at the morale they started the day with
C6_Witness ==
    /\ pc = "pd_decay"
    /\ results.shortages = {"water"}
    /\ alive_count(members) > 0
    /\ \A i \in alive_members(members) :
         InList("Dehydrated", members[i].conditions) /\ members[i].morale = 75

(***************************************************************************)
(* Properties of deaths and of the end of the game                         *)
(***************************************************************************)

\* C7: every death is recorded in the death log: whenever a member goes
\* from alive to not alive, by whatever path (daily condition drain, pace
\* damage, hunting injury, event damage), the step adds a death-log entry
\* naming that member.
C7_EveryDeathLogged ==
    [][ \A i \in 1..Len(members) :
            (is_alive(members[i]) /\ ~is_alive(members'[i])) =>
                \E n \in (Len(death_log) + 1)..Len(death_log') :
                    death_log'[n].name = members[i].name
      ]_vars

\* C8 as stated: a member, once added, is never taken out of the member
\* list: whatever Party operation runs, every member in the list before it
\* is in the list after it.
C8_NeverRemoved ==
    [][ \A i \in 1..Len(members) :
            \E j \in 1..Len(members') : members'[j].name = members[i].name
      ]_vars

\* C8 amended: only a successful remove_member takes a member out of the
\* list, and it takes out exactly the player it was given; damage, death,
\* healing and add_member leave every member, dead ones included, in the
\* list in order, and the dead are left out of alive_members.
C8_RemovedOnlyByRemoveMember ==
    [][ LET names(ms) == [ i \in 1..Len(ms) |-> ms[i].name ]
            removed == { i \in 1..Len(members) :
                           \A j \in 1..Len(members') : members'[j].name # members[i].name }
        IN  /\ removed # {} =>
                  /\ ret'.op = "remove_member" /\ ret'.value = 1
                  /\ \A i \in removed : members[i].name = ret'.kind
                  /\ Len(members') = Len(members) - 1
            /\ ret'.op # "remove_member" =>
                  /\ Len(members') >= Len(members)
                  /\ SubSeq(names(members'), 1, Len(members)) = names(members)
            /\ \A j \in 1..Len(members') :
                  members'[j].health = 0 => j \notin alive_members(members')
      ]_vars

\* a member was removed by remove_member while a dead member stays in the list
C8_Witness ==
    /\ ret.op = "remove_member"
    /\ ret.value = 1
    /\ \E i \in 1..Len(members) : ~is_alive(members[i]) /\ i \notin alive_members(members)
    /\ \E i \in 1..Len(members) : is_alive(members[i])

C12_NoHuntBelowTwoAmmunition ==
    [][ (turns' # turns /\ ret'.amount < 2 * Scale) =>
            /\ resources' = resources
            /\ members' = members
            /\ hunting_history' = hunting_history
            /\ ret'.kind \in { "Not enough ammunition to hunt!",
                                "No one is able to hunt right now." }
            /\ ret'.op = "hunt_call" =>
                  /\ ~ret'.result.success
                  /\ ret'.result.ammo_used = 0
                  /\ ret'.result.food_gained = 0
                  /\ ~ret'.result.hunter_injured
                  /\ ret'.result.injury_damage = 0
      ]_vars

\* Game._hunt turned down a hunt with 1.5 ammunition in stock, after a
\* direct call with 1 round was turned down too
C12_Witness ==
    /\ ret.op = "hunt"
    /\ ret.kind = "Not enough ammunition to hunt!"
    /\ turns = 2
    /\ get_quantity(resources, "ammunition") = (3 * Scale) \div 2
    /\ hunting_history = << >>

\* C13: the weather history never holds more than 5 entries; generate_weather
\* makes the weather drawn the current weather and the newest entry of the
\* history, keeps the earlier entries in order, and drops exactly the oldest
\* one when the history was already full.
C13_WeatherHistoryBounded ==
    /\ [](Len(recent_weather) <= 5)
    /\ [][ ret'.op = "generate_weather" =>
             /\ current_weather' = ret'.value
             /\ recent_weather' =
                   IF Len(recent_weather) = 5
                   THEN Append(Tail(recent_weather), ret'.value)
                   ELSE Append(recent_weather, ret'.value) ]_vars

C13_Witness ==
    /\ ret.op = "generate_weather"
    /\ ret.value = "storm"
    /\ recent_weather = << "clear", "clear", "clear", "clear", "storm" >>
    /\ ret.saved.present
    /\ ret.saved.recent_weather = << "storm", "clear", "clear", "clear", "clear" >>

\* C14: events cool down for 3 events: select_random_event never returns an
\* event whose id is in the recent-events buffer, the buffer never holds more
\* than 3 ids, and resolving an event appends its id and evicts the oldest id
\* exactly when the buffer was full, so the buffer is the last 3 resolved ids.
C14_EventCooldown ==
    /\ [](Len(recent_events) <= 3)
    /\ [][ /\ ret'.op = "select_random_event" =>
                 /\ ~InList(ret'.value, recent_events)
                 /\ recent_events' = recent_events
           /\ (ret'.op = "resolve_choice" /\ ret'.value # "error") =>
                 recent_events' =
                    IF Len(recent_events) = 3
                    THEN Append(Tail(recent_events), ret'.value)
                    ELSE Append(recent_events, ret'.value) ]_vars

C14_Witness ==
    /\ ret.op = "select_random_event"
    /\ ret.value = "wolf_attack"
    /\ recent_events = << "hot_spring", "rockslide", "trapper_camp" >>
    /\ ret.saved.present
    /\ ret.saved.recent_events = << "wolf_attack", "hot_spring", "rockslide" >>

\* C15: waiting at a river returns at once a success result that is a no-op:
\* outcome cancelled, no time and no money spent, no supplies lost, no
\* injuries, no deaths, and no random draw is made; nothing of the party, the
\* resources or the journey changes.
C15_WaitIsNoOp ==
    [][ (turns' # turns /\ ret'.method = "wait") =>
          /\ ret'.result = [ success |-> TRUE, outcome |-> "cancelled", method |-> "wait",
                             supplies_lost |-> 0, injuries |-> << >>, deaths |-> << >>,
                             time_spent |-> 0, money_spent |-> 0 ]
          /\ ret'.rolls = 0
          /\ UNCHANGED riverRest ]_vars

C15_Witness ==
    /\ ret.op = "attempt_river_crossing"
    /\ ret.method = "wait"
    /\ ret.result.success
    /\ Len(crossing_history) = 2
    /\ crossing_history[1].result.outcome = "disaster"
    /\ crossing_history[2].result.outcome = "cancelled"

C17_RestConsumesWithoutDecay ==
    [][ (ret'.op = "rest" /\ turns' # turns /\ ret'.value = turns') =>
          LET needed == calculate_daily_consumption(alive_count(members), "plains",
                                                    current_rationing)
          IN  \A k \in ResourceType :
                /\ resources'[k].quality = resources[k].quality
                /\ resources'[k].max_capacity = resources[k].max_capacity
                /\ resources'[k].quantity =
                      IF k \in {"food", "water"}
                      THEN Max(0, resources[k].quantity - ret'.amount * needed[k])
                      ELSE resources[k].quantity ]_vars

C17_Witness ==
    /\ ret.op = "rest" /\ ret.kind = "meager" /\ ret.amount = 2 /\ ret.value = 2
    /\ get_quantity(resources, "food") = 12 * Scale
    /\ get_quantity(resources, "water") = 16 * Scale
    /\ resources["food"].quality = 100 * Scale
    /\ days_traveled = 2

\* C18 as stated: with a member alive, Party.get_travel_speed_modifier() is
\* the minimum of the living members' own travel speed modifiers.
C18_EqualsMinimum ==
    [][ (ret'.op = "get_travel_speed_modifier" /\ alive_members(members) # {}) =>
          \E i \in alive_members(members) :
             /\ ret'.value = Player_get_travel_speed_modifier(members[i])
             /\ \A j \in alive_members(members) :
                   ret'.value <= Player_get_travel_speed_modifier(members[j]) ]_vars

\* C18 as the code has it: the result is -100 with nobody alive; otherwise it
\* is the minimum of the living members' modifiers, and a negative minimum is
\* scaled by (1 - bonus / 200), truncated toward zero, where bonus is the best
\* navigation bonus among the living members. It is never the average.
C18_WorstModifierReducedByNavigation ==
    [][ ret'.op = "get_travel_speed_modifier" =>
          IF alive_members(members) = {} THEN ret'.value = -100
          ELSE \E i \in alive_members(members), n \in alive_members(members) :
                 LET worst == Player_get_travel_speed_modifier(members[i])
                     bonus == ROLE_BONUSES[members[n].role].navigation
                 IN  /\ \A j \in alive_members(members) :
                           /\ worst <= Player_get_travel_speed_modifier(members[j])
                           /\ bonus >= ROLE_BONUSES[members[j].role].navigation
                     /\ ret'.value = -((-worst * (200 - bonus)) \div 200) ]_vars

C18_Witness ==
    /\ ret.op = "get_travel_speed_modifier"
    /\ ret.value = -9
    /\ Len(members) = 4
    /\ ~is_alive(members[1])
    /\ members[2].health = 40
    /\ members[3].health = 100
    /\ is_alive(members[4])

\* C19: whatever the game has done (damage, healing, morale events, daily
\* updates, rest), every member's health and morale are within 0..100.
C19_HealthAndMoraleInRange ==
    \A i \in 1..Len(members) :
        /\ 0 <= members[i].health /\ members[i].health <= 100
        /\ 0 <= members[i].morale /\ members[i].morale <= 100

C19_Witness ==
    /\ \E i \in 1..Len(members) : members[i].health = 0 /\ ~is_alive(members[i])
    /\ \E i \in 1..Len(members) : members[i].morale = 100 /\ is_alive(members[i])

\* C20: a player never holds the same condition twice; add_condition of an
\* absent condition other than Healthy appends it and returns true, and the
\* same add_condition called again right after returns false and changes
\* nothing; remove_condition of an absent condition returns false and changes
\* nothing.
C20_ConditionsAreASet ==
    /\ [](\A i, j \in 1..Len(members[1].conditions) :
             i # j => members[1].conditions[i] # members[1].conditions[j])
    /\ [][ /\ (ret'.op = "add_condition" /\ ret'.kind # "Healthy"
                    /\ ~InList(ret'.kind, members[1].conditions)) =>
                 /\ ret'.value = TRUE
                 /\ members'[1].conditions = Append(members[1].conditions, ret'.kind)
           /\ (ret.op = "add_condition" /\ ret'.op = "add_condition" /\ ret'.kind = ret.kind) =>
                 /\ ret'.value = FALSE
                 /\ members' = members
           /\ (ret'.op = "remove_condition" /\ ~InList(ret'.kind, members[1].conditions)) =>
                 /\ ret'.value = FALSE
                 /\ members' = members ]_vars

C20_Witness ==
    /\ ret.op = "add_condition" /\ ret.kind = "Injured" /\ ret.value = FALSE
    /\ members[1].conditions = << "Exhausted", "Injured" >>
    /\ ret.saved.present
    /\ ret.saved.data.conditions = << "Injured", "Exhausted" >>

C22_RationingOrdersConsumption ==
    \A pair \in { << "filling", "normal" >>, << "normal", "meager" >>,
                  << "meager", "starving" >> } :
        (pair[1] \in DOMAIN ret.daily /\ pair[2] \in DOMAIN ret.daily)
            => ret.daily[pair[1]] > ret.daily[pair[2]]

C22_Witness ==
    /\ ret.op = "calculate_daily_consumption"
    /\ DOMAIN ret.daily = Rationing
    /\ alive_count(members) = 4
    /\ ret.terrain = "mountains"
    /\ ret.daily["filling"] = 18 * Scale
    /\ ret.daily["starving"] = 3 * Scale

C24_FailedHuntYieldsPartial ==
    (/\ ret.op = "hunt_call"
     /\ ret.result.message = "hunt failed")
        => ret.result.food_gained > 0

\* C25: the money a river crossing reports as spent never exceeds the money
\* the party held when the crossing started.
C25_MoneySpentWithinMoneyHeld ==
    ret.op = "attempt_river_crossing"
        => ret.result.money_spent * Scale <= get_quantity(resources, "money")

\* C26: once a member is dead no step changes that member's health, morale,
\* conditions or days survived; in particular the injury handling of a hunt
\* that kills the hunter adds no condition to the dead hunter.
C26_DeadMemberUntouched ==
    [][ \A i \in 1..Len(members) :
          /\ ~is_alive(members[i]) =>
                /\ members'[i].health = members[i].health
                /\ members'[i].morale = members[i].morale
                /\ members'[i].conditions = members[i].conditions
                /\ members'[i].days_survived = members[i].days_survived
          /\ (ret'.op = "hunt" /\ ret'.value = turns' /\ turns' # turns
                  /\ is_alive(members[i]) /\ ~is_alive(members'[i]))
                => members'[i].conditions = members[i].conditions
      ]_vars

\* C27: a day of rest on which the food (water) in stock is less than the
\* day's consumption ends with every living member Starving (Dehydrated), as a
\* day of travel does.
C27_RestDayShortageGivesCondition ==
    [][ (ret'.op = "rest" /\ turns' # turns /\ ret'.amount = 1) =>
          LET needed == calculate_daily_consumption(alive_count(members), "plains",
                                                    current_rationing)
          IN  /\ needed["food"] > get_quantity(resources, "food") =>
                    \A i \in 1..Len(members') :
                        is_alive(members'[i]) => InList("Starving", members'[i].conditions)
              /\ needed["water"] > get_quantity(resources, "water") =>
                    \A i \in 1..Len(members') :
                        is_alive(members'[i]) => InList("Dehydrated", members'[i].conditions)
      ]_vars

\* C28: scout_ahead leaves the weather as it found it: the current weather
\* and the weather history, entries and length, are the same after the call
\* as before, also when the history already held 5 entries.
C28_ScoutAheadKeepsWeather ==
    [][ ret'.op = "scout_ahead" =>
          /\ current_weather' = current_weather
          /\ recent_weather' = recent_weather ]_vars

\* C29: between turns the number of calendar days the date has advanced
\* equals the party's days_traveled.
C29_CalendarMatchesDaysTraveled ==
    pc = "idle" => date = days_traveled

\* C30: process_day applies the low-food warning exactly when the days of
\* food left for the living members at the party's current rationing level
\* are more than 0 and fewer than 3.
C30_LowFoodAtCurrentRationing ==
    ret.op = "process_day" =>
        LET food_days == days_of_food(resources, alive_count(members), current_rationing)
        IN  results.low_food <=> (food_days > 0 /\ food_days < 3)

====
